---- MODULE Spec2Model ----
(***************************************************************************)
(* The mood-scoring engine of src/src/core/analyzer.py: the five signal    *)
(* analyzers, the aggregator MoodDataAnalyzer.analyze and its scorer       *)
(* _score_moods.                                                           *)
(*                                                                         *)
(* Number representation (all arithmetic is exact):                        *)
(*   - sleep hours are tenths of an hour (6.0 h = 60);                     *)
(*   - music features are hundredths (0.7 = 70);                           *)
(*   - source weights are percent (0.35 = 35);                             *)
(*   - total_pressure is tenths (4.0 = 40);                                *)
(*   - scores are units of 0.005 (base * percent * 2), so that the veto's  *)
(*     factor 1.5 is the exact integer operation (3 * x) \div 2;           *)
(*   - a time of day is a whole hour, a date is a day number whose value   *)
(*     modulo 7 is the weekday (0 = Monday).                               *)
(* Text is a sequence of one-character strings; an accented letter is the  *)
(* letter and a digit in one string: "e1" is e-acute, "e2" e-grave, "e3"   *)
(* e-circumflex.                                                           *)
(***************************************************************************)
EXTENDS Integers, Sequences, FiniteSets, TLC

VARIABLES
  args,         \* the twelve arguments of MoodDataAnalyzer.analyze
  calls,        \* number of analyze calls made with args
  report,       \* the value returned by the last analyze call
  prev_report,  \* the value returned by the call before it
  clock_read,   \* what datetime.now() returned to the last analyze call:
                \* [day, hour] of the ambient wall clock
  score_in,     \* arguments of the last _score_moods call
  score_trace,  \* mood_scores of that call after the loop, after the
                \* normalization and on return
  gemini,       \* a predict_mood call (adapters/clients/gemini.py): its
                \* position in the model cascade, what each model tried
                \* answered, and the value returned
  db,           \* the daily_logs collection (adapters/repositories/mongo.py)
                \* and the save_log calls made on it
  run           \* a run of main() (main.py): its position, its local
                \* variables and what its collaborators did

engine_vars ==
  <<args, calls, report, prev_report, clock_read, score_in, score_trace>>

vars == <<args, calls, report, prev_report, clock_read, score_in, score_trace,
          gemini, db, run>>

(***************************************************************************)
(* MoodAnalyzerConfig                                                      *)
(***************************************************************************)
\* SPORT_INTENSE (analyzer.py:32-35)
SPORT_INTENSE ==
  <<
    <<"c", "r", "o", "s", "s", "f", "i", "t">>,
    <<"c", "o", "m", "p", "e1", "t", "i", "t", "i", "o", "n">>,
    <<"c", "o", "m", "p", "e", "t", "i", "t", "i", "o", "n">>,
    <<"h", "i", "i", "t">>,
    <<"m", "a", "r", "a", "t", "h", "o", "n">>,
    <<"t", "r", "i", "a", "t", "h", "l", "o", "n">>,
    <<"m", "a", "t", "c", "h">>,
    <<"r", "u", "g", "b", "y">>,
    <<"f", "o", "o", "t", "b", "a", "l", "l">>,
    <<"b", "a", "s", "k", "e", "t">>,
    <<"b", "o", "x", "e">>
  >>

\* SPORT_MODERATE (analyzer.py:37-40)
SPORT_MODERATE ==
  <<
    <<"r", "u", "n">>,
    <<"g", "y", "m">>,
    <<"y", "o", "g", "a">>,
    <<"v", "e1", "l", "o">>,
    <<"v", "e", "l", "o">>,
    <<"n", "a", "t", "a", "t", "i", "o", "n">>,
    <<"f", "i", "t", "n", "e", "s", "s">>,
    <<"s", "p", "o", "r", "t">>,
    <<"m", "u", "s", "c", "u", "l", "a", "t", "i", "o", "n">>,
    <<"t", "r", "a", "i", "n">>,
    <<"t", "r", "a", "i", "n", "i", "n", "g">>,
    <<"e", "n", "t", "r", "a", "i3", "n", "e", "m", "e", "n", "t">>,
    <<"e", "n", "t", "r", "a", "i", "n", "e", "m", "e", "n", "t">>,
    <<"p", "i", "l", "a", "t", "e", "s">>
  >>

\* WORK_CREATIVE (analyzer.py:43-47)
WORK_CREATIVE ==
  <<
    <<"d", "e", "s", "i", "g", "n">>,
    <<"d", "e", "v">>,
    <<"d", "e1", "v", "e", "l", "o", "p", "p", "e", "m", "e", "n", "t">>,
    <<"d", "e", "v", "e", "l", "o", "p", "p", "e", "m", "e", "n", "t">>,
    <<"a", "r", "t">>,
    <<"c", "r", "e1", "a", "t", "i", "o", "n">>,
    <<"c", "r", "e", "a", "t", "i", "o", "n">>,
    <<"c", "r", "e", "a", "t", "i", "v", "e">>,
    <<"p", "r", "o", "j", "e", "t", " ", "p", "e", "r", "s", "o">>,
    <<"c", "o", "d", "i", "n", "g">>,
    <<"d", "e", "s", "s", "i", "n">>,
    <<"p", "h", "o", "t", "o">>,
    <<"m", "u", "s", "i", "q", "u", "e">>,
    <<"m", "a", "c", "h", "i", "n", "e">>,
    <<"c", "o", "n", "c", "e", "p", "t", "i", "o", "n">>,
    <<"a", "l", "g", "o">>,
    <<"a", "l", "g", "o", "r", "i", "t", "h", "m", "i", "q", "u", "e">>,
    <<"p", "r", "o", "g", "r", "a", "m", "m", "a", "t", "i", "o", "n">>
  >>

\* WORK_FOCUS_HIGH (analyzer.py:50-52)
WORK_FOCUS_HIGH ==
  <<
    <<"e", "x", "a", "m">>,
    <<"e", "x", "a", "m", "e", "n">>,
    <<"p", "a", "r", "t", "i", "e", "l">>,
    <<"s", "o", "u", "t", "e", "n", "a", "n", "c", "e">>,
    <<"c", "e", "r", "t", "i", "f", "i", "c", "a", "t", "i", "o", "n">>,
    <<"c", "o", "n", "c", "o", "u", "r", "s">>,
    <<"f", "i", "n", "a", "l">>,
    <<"c", "o", "n", "t", "r", "o", "l", "e">>,
    <<"c", "o", "n", "t", "r", "o3", "l", "e">>
  >>

\* WORK_FOCUS_NORMAL (analyzer.py:55-62)
WORK_FOCUS_NORMAL ==
  <<
    <<"r", "e1", "u", "n", "i", "o", "n">>,
    <<"r", "e", "u", "n", "i", "o", "n">>,
    <<"p", "r", "e1", "s", "e", "n", "t", "a", "t", "i", "o", "n">>,
    <<"p", "r", "e", "s", "e", "n", "t", "a", "t", "i", "o", "n">>,
    <<"p", "r", "o", "j", "e", "t">>,
    <<"e1", "t", "u", "d", "e">>,
    <<"e", "t", "u", "d", "e">>,
    <<"t", "r", "a", "v", "a", "i", "l">>,
    <<"m", "e", "e", "t", "i", "n", "g">>,
    <<"r", "e", "n", "d", "u">>,
    <<"d", "e", "a", "d", "l", "i", "n", "e">>,
    <<"c", "m">>,
    <<"t", "d">>,
    <<"c", "o", "u", "r", "s", " ", "m", "a", "g", "i", "s", "t", "r", "a", "l">>,
    <<"t", "r", "a", "v", "a", "u", "x", " ", "d", "i", "r", "i", "g", "e1", "s">>,
    <<"t", "p">>,
    <<"t", "r", "a", "v", "a", "u", "x", " ", "p", "r", "a", "t", "i", "q", "u", "e", "s">>,
    <<"c", "o", "m", "p", "t", "a", "b", "i", "l", "i", "t", "e1">>,
    <<"c", "o", "m", "p", "t", "a", "b", "i", "l", "i", "t", "e">>,
    <<"c", "o", "m", "p", "t", "a">>,
    <<"g", "e", "s", "t", "i", "o", "n">>,
    <<"f", "i", "n", "a", "n", "c", "e">>,
    <<"e", "c", "o", "-", "g", "e", "s", "t", "i", "o", "n">>,
    <<"e", "c", "o", " ", "g", "e", "s", "t", "i", "o", "n">>,
    <<"m", "i", "a", "g", "e">>,
    <<"b", "u", "s", "i", "n", "e", "s", "s", " ", "e", "n", "g", "l", "i", "s", "h">>,
    <<"e", "n", "g", "l", "i", "s", "h">>,
    <<"s", "y", "s", "t", "e2", "m", "e">>,
    <<"s", "y", "s", "t", "e", "m", "e">>,
    <<"s", "t", "r", "a", "t">>,
    <<"s", "t", "r", "a", "t", "e1", "g", "i", "e">>,
    <<"s", "t", "r", "a", "t", "e", "g", "i", "e">>
  >>

\* SOCIAL_ACTIVE (analyzer.py:65-68)
SOCIAL_ACTIVE ==
  <<
    <<"f", "e3", "t", "e">>,
    <<"f", "e", "t", "e">>,
    <<"s", "o", "i", "r", "e1", "e">>,
    <<"s", "o", "i", "r", "e", "e">>,
    <<"c", "o", "n", "c", "e", "r", "t">>,
    <<"b", "a", "r">>,
    <<"c", "l", "u", "b">>,
    <<"a", "n", "n", "i", "v">>,
    <<"a", "n", "n", "i", "v", "e", "r", "s", "a", "i", "r", "e">>,
    <<"p", "a", "r", "t", "y">>,
    <<"f", "e", "s", "t", "i", "v", "a", "l">>,
    <<"s", "o", "r", "t", "i", "e">>,
    <<"b", "o", "i3", "t", "e">>,
    <<"b", "o", "i", "t", "e">>
  >>

\* SOCIAL_CALM (analyzer.py:70-73)
SOCIAL_CALM ==
  <<
    <<"r", "e", "s", "t", "o">>,
    <<"r", "e", "s", "t", "a", "u", "r", "a", "n", "t">>,
    <<"c", "a", "f", "e1">>,
    <<"c", "a", "f", "e">>,
    <<"a", "p", "e1", "r", "o">>,
    <<"a", "p", "e", "r", "o">>,
    <<"d", "i3", "n", "e", "r">>,
    <<"d", "i", "n", "e", "r">>,
    <<"d", "e1", "j", "e", "u", "n", "e", "r">>,
    <<"d", "e", "j", "e", "u", "n", "e", "r">>,
    <<"b", "r", "u", "n", "c", "h">>,
    <<"r", "e", "p", "a", "s">>,
    <<"b", "o", "u", "f", "f", "e">>
  >>

\* WEATHER_RAIN (analyzer.py:83-83)
WEATHER_RAIN ==
  <<
    <<"o", "r", "a", "g", "e">>,
    <<"s", "t", "o", "r", "m">>,
    <<"t", "e", "m", "p", "e3", "t", "e">>,
    <<"t", "e", "m", "p", "e", "t", "e">>,
    <<"p", "l", "u", "i", "e">>,
    <<"r", "a", "i", "n">>,
    <<"p", "l", "u", "v", "i", "e", "u", "x">>
  >>

\* WEATHER_CLOUDY (analyzer.py:84-84)
WEATHER_CLOUDY ==
  <<
    <<"g", "r", "i", "s", "a", "i", "l", "l", "e">>,
    <<"g", "r", "i", "s">>,
    <<"o", "v", "e", "r", "c", "a", "s", "t">>,
    <<"n", "u", "a", "g", "e", "u", "x">>,
    <<"c", "l", "o", "u", "d", "y">>
  >>

\* WEATHER_SUNNY (analyzer.py:85-85)
WEATHER_SUNNY ==
  <<
    <<"s", "o", "l", "e", "i", "l">>,
    <<"s", "u", "n", "n", "y">>,
    <<"e", "n", "s", "o", "l", "e", "i", "l", "l", "e1">>,
    <<"e", "n", "s", "o", "l", "l", "e", "i", "l", "e">>,
    <<"c", "l", "e", "a", "r">>
  >>

\* SLEEP THRESHOLDS, tenths of an hour (analyzer.py:76-79)
SLEEP_CRITICAL == 60
SLEEP_POOR == 70
SLEEP_INADEQUATE == 80
SLEEP_OPTIMAL_MIN == 85

\* MUSIC FEATURE THRESHOLD, hundredths (analyzer.py:88)
ENERGY_HIGH == 70

\* SOURCE WEIGHTS, percent (analyzer.py:97-101)
WEIGHT_AGENDA == 35
WEIGHT_SLEEP == 35
WEIGHT_WEATHER == 15
WEIGHT_MUSIC == 10
WEIGHT_TIME == 5

(***************************************************************************)
(* Enums                                                                   *)
(***************************************************************************)
\* SignalStrength, in declaration order
SignalStrength ==
  <<"very_weak", "weak", "neutral", "moderate", "strong", "very_strong">>

\* MoodCategory, in declaration order: the key order of every mood_scores dict
MoodCategory ==
  <<"creative", "hard_work", "confident", "chill", "energetic",
    "melancholy", "intense", "pumped", "tired">>

Range(s) == {s[i] : i \in DOMAIN s}

Moods == Range(MoodCategory)

Strengths == Range(SignalStrength)

Sources == {"agenda", "sleep", "weather", "music", "time"}

(***************************************************************************)
(* Text: str.lower(), the in substring test, slicing                     *)
(***************************************************************************)
UpperLetters ==
  <<"A", "B", "C", "D", "E", "F", "G", "H", "I", "J", "K", "L", "M", "N",
    "O", "P", "Q", "R", "S", "T", "U", "V", "W", "X", "Y", "Z", "E1", "E2">>

LowerLetters ==
  <<"a", "b", "c", "d", "e", "f", "g", "h", "i", "j", "k", "l", "m", "n",
    "o", "p", "q", "r", "s", "t", "u", "v", "w", "x", "y", "z", "e1", "e2">>

LowerChar(c) ==
  IF \E i \in DOMAIN UpperLetters : UpperLetters[i] = c
    THEN LowerLetters[CHOOSE i \in DOMAIN UpperLetters : UpperLetters[i] = c]
    ELSE c

\* str.lower()
Lower(s) == [i \in DOMAIN s |-> LowerChar(s[i])]

\* k in s
Contains(k, s) ==
  \E i \in 1..(Len(s) - Len(k) + 1) : SubSeq(s, i, i + Len(k) - 1) = k

\* any(k in s for k in keywords)
AnyIn(keywords, s) == \E j \in DOMAIN keywords : Contains(keywords[j], s)

\* s[:n]
Take(s, n) == IF Len(s) <= n THEN s ELSE SubSeq(s, 1, n)

(***************************************************************************)
(* AgendaAnalyzer.analyze_events                                           *)
(*                                                                         *)
(* An event is [has_summary, summary, start]; start is                     *)
(* [kind, ok, day, hour]: kind tells which key the start dict holds        *)
(* ("dateTime", "date" or "none"), ok whether its string parses            *)
(* (fromisoformat / strptime raise ValueError otherwise), day and hour     *)
(* what it parses to.                                                      *)
(***************************************************************************)
\* event.get(summary, empty string)
EventSummary(event) == IF event.has_summary THEN event.summary ELSE <<>>

\* the parse taking the day and hour of a start string that does not parse
ParseStartLenient(start) ==
  IF start.kind = "dateTime"
    THEN [status |-> "ok", date |-> start.day, has_time |-> TRUE,
          hour |-> start.hour]
  ELSE IF start.kind = "date"
    THEN [status |-> "ok", date |-> start.day, has_time |-> FALSE,
          hour |-> 0]
  ELSE [status |-> "nodate", date |-> 0, has_time |-> FALSE, hour |-> 0]

\* the parse giving a date-only start the time of day 00:00
ParseStartMidnight(start) ==
  IF start.kind = "dateTime"
    THEN IF start.ok
           THEN [status |-> "ok", date |-> start.day, has_time |-> TRUE,
                 hour |-> start.hour]
           ELSE [status |-> "ValueError", date |-> 0, has_time |-> FALSE,
                 hour |-> 0]
  ELSE IF start.kind = "date"
    THEN IF start.ok
           THEN [status |-> "ok", date |-> start.day, has_time |-> TRUE,
                 hour |-> 0]
           ELSE [status |-> "ValueError", date |-> 0, has_time |-> FALSE,
                 hour |-> 0]
  ELSE [status |-> "nodate", date |-> 0, has_time |-> FALSE, hour |-> 0]

\* lines 161-174: status "ok" with the parsed date (and time, for a
\* dateTime), "ValueError" when the parse raises, "nodate" for the else branch
ParseStart(start) ==
  IF start.kind = "dateTime"
    THEN IF start.ok
           THEN [status |-> "ok", date |-> start.day, has_time |-> TRUE,
                 hour |-> start.hour]
           ELSE [status |-> "ValueError", date |-> 0, has_time |-> FALSE,
                 hour |-> 0]
  ELSE IF start.kind = "date"
    THEN IF start.ok
           THEN [status |-> "ok", date |-> start.day, has_time |-> FALSE,
                 hour |-> 0]
           ELSE [status |-> "ValueError", date |-> 0, has_time |-> FALSE,
                 hour |-> 0]
  ELSE [status |-> "nodate", date |-> 0, has_time |-> FALSE, hour |-> 0]

\* the locals of analyze_events before the loop (lines 144-147)
AgendaStart ==
  [today_events |-> <<>>, upcoming_stress_events |-> <<>>,
   mood_signals |-> <<>>, total_pressure |-> 0, raised |-> "None"]

\* the chain in the order of the comment at line 202, which puts the social
\* keywords before the normal-focus ones
ClassifyFutureCommentOrder(st, summary) ==
  LET add(sigs, p) ==
        [st EXCEPT !.mood_signals = @ \o sigs,
                   !.total_pressure = @ + p,
                   !.today_events =
                      Append(@, [done |-> FALSE, text |-> Take(summary, 30)])]
  IN IF AnyIn(SPORT_INTENSE, summary)
       THEN add(<< <<"pumped", "very_strong">> >>, 20)
     ELSE IF AnyIn(SPORT_MODERATE, summary)
       THEN add(<< <<"energetic", "strong">> >>, 10)
     ELSE IF AnyIn(WORK_CREATIVE, summary)
       THEN add(<< <<"creative", "strong">> >>, 10)
     ELSE IF AnyIn(WORK_FOCUS_HIGH, summary)
       THEN add(<< <<"intense", "very_strong">>, <<"hard_work", "strong">> >>, 40)
     ELSE IF AnyIn(SOCIAL_ACTIVE, summary)
       THEN add(<< <<"confident", "strong">>, <<"energetic", "moderate">> >>, 10)
     ELSE IF AnyIn(WORK_FOCUS_NORMAL, summary)
       THEN add(<< <<"hard_work", "moderate">> >>, 5)
     ELSE IF AnyIn(SOCIAL_CALM, summary)
       THEN add(<< <<"chill", "strong">> >>, 5)
     ELSE add(<< <<"confident", "moderate">> >>, 5)

\* lines 204-234: the if/elif chain over the keyword lists
ClassifyFuture(st, summary) ==
  LET add(sigs, p) ==
        [st EXCEPT !.mood_signals = @ \o sigs,
                   !.total_pressure = @ + p,
                   !.today_events =
                      Append(@, [done |-> FALSE, text |-> Take(summary, 30)])]
  IN IF AnyIn(SPORT_INTENSE, summary)
       THEN add(<< <<"pumped", "very_strong">> >>, 20)
     ELSE IF AnyIn(SPORT_MODERATE, summary)
       THEN add(<< <<"energetic", "strong">> >>, 10)
     ELSE IF AnyIn(WORK_CREATIVE, summary)
       THEN add(<< <<"creative", "strong">> >>, 10)
     ELSE IF AnyIn(WORK_FOCUS_HIGH, summary)
       THEN add(<< <<"intense", "very_strong">>, <<"hard_work", "strong">> >>, 40)
     ELSE IF AnyIn(WORK_FOCUS_NORMAL, summary)
       THEN add(<< <<"hard_work", "moderate">> >>, 5)
     ELSE IF AnyIn(SOCIAL_ACTIVE, summary)
       THEN add(<< <<"confident", "strong">>, <<"energetic", "moderate">> >>, 10)
     ELSE IF AnyIn(SOCIAL_CALM, summary)
       THEN add(<< <<"chill", "strong">> >>, 5)
     ELSE add(<< <<"confident", "moderate">> >>, 5)

\* except ValueError (lines 172-174): a warning is logged and the loop goes on
\* to the next event
OnValueErrorPropagates(st) == [st EXCEPT !.raised = "ValueError"]

OnValueError(st) == st

\* the loop body with a look-ahead of three days
AgendaStepThreeDays(st, event, clock) ==
  LET summary == Lower(EventSummary(event))
      p == ParseStart(event.start)
      days_diff == p.date - clock.day
      high == AnyIn(WORK_FOCUS_HIGH, summary)
  IN IF p.status = "ValueError"
       THEN OnValueError(st)
     ELSE IF p.status = "nodate"
       THEN st                       \* continue (line 171)
     ELSE IF 0 < days_diff /\ days_diff <= 3
       THEN IF high
              THEN [st EXCEPT
                      !.upcoming_stress_events =
                         Append(@, [text |-> summary, in_days |-> days_diff]),
                      !.mood_signals =
                         @ \o << <<"hard_work", "strong">>,
                                 <<"intense", "moderate">> >>]
              ELSE st
     ELSE IF p.date # clock.day
       THEN st
     ELSE IF p.has_time /\ p.hour <= clock.hour
       THEN IF high
              THEN [st EXCEPT
                      !.mood_signals = Append(@, <<"tired", "very_strong">>),
                      !.today_events =
                         Append(@, [done |-> TRUE, text |-> Take(summary, 30)])]
              ELSE st
     ELSE ClassifyFuture(st, summary)

\* the loop body in which an event at the current time is still to come
AgendaStepStrictlyBefore(st, event, clock) ==
  LET summary == Lower(EventSummary(event))
      p == ParseStart(event.start)
      days_diff == p.date - clock.day
      high == AnyIn(WORK_FOCUS_HIGH, summary)
  IN IF p.status = "ValueError"
       THEN OnValueError(st)
     ELSE IF p.status = "nodate"
       THEN st                       \* continue (line 171)
     ELSE IF 0 < days_diff /\ days_diff <= 2
       THEN IF high
              THEN [st EXCEPT
                      !.upcoming_stress_events =
                         Append(@, [text |-> summary, in_days |-> days_diff]),
                      !.mood_signals =
                         @ \o << <<"hard_work", "strong">>,
                                 <<"intense", "moderate">> >>]
              ELSE st
     ELSE IF p.date # clock.day
       THEN st
     ELSE IF p.has_time /\ p.hour < clock.hour
       THEN IF high
              THEN [st EXCEPT
                      !.mood_signals = Append(@, <<"tired", "very_strong">>),
                      !.today_events =
                         Append(@, [done |-> TRUE, text |-> Take(summary, 30)])]
              ELSE st
     ELSE ClassifyFuture(st, summary)

\* one iteration of the loop (lines 153-234); clock is what datetime.now()
\* returned at line 149
AgendaStep(st, event, clock) ==
  LET summary == Lower(EventSummary(event))
      p == ParseStart(event.start)
      days_diff == p.date - clock.day
      high == AnyIn(WORK_FOCUS_HIGH, summary)
  IN IF p.status = "ValueError"
       THEN OnValueError(st)
     ELSE IF p.status = "nodate"
       THEN st                       \* continue (line 171)
     ELSE IF 0 < days_diff /\ days_diff <= 2
       THEN IF high
              THEN [st EXCEPT
                      !.upcoming_stress_events =
                         Append(@, [text |-> summary, in_days |-> days_diff]),
                      !.mood_signals =
                         @ \o << <<"hard_work", "strong">>,
                                 <<"intense", "moderate">> >>]
              ELSE st
     ELSE IF p.date # clock.day
       THEN st
     ELSE IF p.has_time /\ p.hour <= clock.hour
       THEN IF high
              THEN [st EXCEPT
                      !.mood_signals = Append(@, <<"tired", "very_strong">>),
                      !.today_events =
                         Append(@, [done |-> TRUE, text |-> Take(summary, 30)])]
              ELSE st
     ELSE ClassifyFuture(st, summary)

RECURSIVE AgendaLoop(_, _, _, _)
AgendaLoop(st, events, i, clock) ==
  IF i > Len(events) \/ st.raised # "None"
    THEN st
    ELSE AgendaLoop(AgendaStep(st, events[i], clock), events, i + 1, clock)

\* analyze_events(events, current_hour); current_hour is never read, the
\* date and time of day come from datetime.now() (lines 149-151)
AnalyzeEvents(events, current_hour, clock) ==
  LET st == AgendaLoop(AgendaStart, events, 1, clock)
  IN [raised |-> st.raised,
      total_pressure |-> st.total_pressure,
      event_count |-> Len(st.today_events),
      today_events |-> Take(st.today_events, 5),
      upcoming_stress |-> st.upcoming_stress_events,
      mood_signals |-> st.mood_signals,
      analysis |-> [pressure |-> st.total_pressure,
                    upcoming |-> Len(st.upcoming_stress_events)]]

(***************************************************************************)
(* SleepAnalyzer.analyze_sleep                                             *)
(***************************************************************************)
\* the chain with the veto band closed at its upper end (6.0 h vetoes)
SleepBandInclusive(sleep_hours) ==
  IF sleep_hours <= 0
    THEN [q |-> "NO_DATA", v |-> FALSE, s |-> << <<"chill", "moderate">> >>]
  ELSE IF sleep_hours <= SLEEP_CRITICAL
    THEN [q |-> "CRITICAL_VETO", v |-> TRUE,
          s |-> << <<"tired", "very_strong">> >>]
  ELSE IF sleep_hours < SLEEP_POOR
    THEN [q |-> "POOR", v |-> FALSE,
          s |-> << <<"tired", "strong">>, <<"intense", "moderate">> >>]
  ELSE IF sleep_hours < SLEEP_INADEQUATE
    THEN [q |-> "INADEQUATE", v |-> FALSE,
          s |-> << <<"tired", "moderate">> >>]
  ELSE IF sleep_hours >= SLEEP_OPTIMAL_MIN
    THEN [q |-> "OPTIMAL", v |-> FALSE,
          s |-> << <<"energetic", "strong">>, <<"confident", "strong">> >>]
  ELSE [q |-> "OK", v |-> FALSE, s |-> << <<"chill", "moderate">> >>]

\* the chain with the optimal band open at its lower end (8.5 h is only OK)
SleepBandOptimalExclusive(sleep_hours) ==
  IF sleep_hours <= 0
    THEN [q |-> "NO_DATA", v |-> FALSE, s |-> << <<"chill", "moderate">> >>]
  ELSE IF sleep_hours < SLEEP_CRITICAL
    THEN [q |-> "CRITICAL_VETO", v |-> TRUE,
          s |-> << <<"tired", "very_strong">> >>]
  ELSE IF sleep_hours < SLEEP_POOR
    THEN [q |-> "POOR", v |-> FALSE,
          s |-> << <<"tired", "strong">>, <<"intense", "moderate">> >>]
  ELSE IF sleep_hours < SLEEP_INADEQUATE
    THEN [q |-> "INADEQUATE", v |-> FALSE,
          s |-> << <<"tired", "moderate">> >>]
  ELSE IF sleep_hours > SLEEP_OPTIMAL_MIN
    THEN [q |-> "OPTIMAL", v |-> FALSE,
          s |-> << <<"energetic", "strong">>, <<"confident", "strong">> >>]
  ELSE [q |-> "OK", v |-> FALSE, s |-> << <<"chill", "moderate">> >>]

\* lines 260-286: quality q, veto_triggered v and mood_signals s
SleepBand(sleep_hours) ==
  IF sleep_hours <= 0
    THEN [q |-> "NO_DATA", v |-> FALSE, s |-> << <<"chill", "moderate">> >>]
  ELSE IF sleep_hours < SLEEP_CRITICAL
    THEN [q |-> "CRITICAL_VETO", v |-> TRUE,
          s |-> << <<"tired", "very_strong">> >>]
  ELSE IF sleep_hours < SLEEP_POOR
    THEN [q |-> "POOR", v |-> FALSE,
          s |-> << <<"tired", "strong">>, <<"intense", "moderate">> >>]
  ELSE IF sleep_hours < SLEEP_INADEQUATE
    THEN [q |-> "INADEQUATE", v |-> FALSE,
          s |-> << <<"tired", "moderate">> >>]
  ELSE IF sleep_hours >= SLEEP_OPTIMAL_MIN
    THEN [q |-> "OPTIMAL", v |-> FALSE,
          s |-> << <<"energetic", "strong">>, <<"confident", "strong">> >>]
  ELSE [q |-> "OK", v |-> FALSE, s |-> << <<"chill", "moderate">> >>]

AnalyzeSleep(sleep_hours, bedtime, wake_time, execution_type) ==
  LET r == SleepBand(sleep_hours)
  IN [sleep_hours |-> sleep_hours,
      quality |-> r.q,
      veto |-> r.v,
      mood_signals |-> r.s,
      analysis |-> [hours |-> sleep_hours, quality |-> r.q, veto_tag |-> r.v]]

(***************************************************************************)
(* WeatherAnalyzer.analyze_weather                                         *)
(***************************************************************************)
\* rain scored as morning rain in every window but the two other known ones
RainSignalsUnknownAsMorning(execution_type) ==
  IF execution_type \notin {"APRES_MIDI", "SOIREE"}
    THEN << <<"melancholy", "very_strong">>, <<"intense", "strong">> >>
    ELSE << <<"melancholy", "moderate">>, <<"chill", "moderate">> >>

\* lines 313-319
RainSignals(execution_type) ==
  IF execution_type = "MATIN"
    THEN << <<"melancholy", "very_strong">>, <<"intense", "strong">> >>
    ELSE << <<"melancholy", "moderate">>, <<"chill", "moderate">> >>

\* the three classes tried in the order sunny, cloudy, rain
AnalyzeWeatherSunnyFirst(weather_summary, temperature, execution_type) ==
  LET weather_lower == Lower(weather_summary)
      is_rain == AnyIn(WEATHER_RAIN, weather_lower)
      is_cloudy == AnyIn(WEATHER_CLOUDY, weather_lower)
      is_sunny == AnyIn(WEATHER_SUNNY, weather_lower)
      sigs == IF is_sunny
                THEN << <<"confident", "strong">>, <<"pumped", "moderate">> >>
              ELSE IF is_cloudy
                THEN << <<"melancholy", "moderate">> >>
              ELSE IF is_rain
                THEN RainSignals(execution_type)
              ELSE <<>>
  IN [weather |-> weather_summary,
      temperature |-> temperature,
      mood_signals |-> sigs,
      analysis |-> weather_summary]

\* lines 301-331

AnalyzeWeather(weather_summary, temperature, execution_type) ==
  LET weather_lower == Lower(weather_summary)
      is_rain == AnyIn(WEATHER_RAIN, weather_lower)
      is_cloudy == AnyIn(WEATHER_CLOUDY, weather_lower)
      is_sunny == AnyIn(WEATHER_SUNNY, weather_lower)
      sigs == IF is_rain
                THEN RainSignals(execution_type)
              ELSE IF is_cloudy
                THEN << <<"melancholy", "moderate">> >>
              ELSE IF is_sunny
                THEN << <<"confident", "strong">>, <<"pumped", "moderate">> >>
              ELSE <<>>
  IN [weather |-> weather_summary,
      temperature |-> temperature,
      mood_signals |-> sigs,
      analysis |-> weather_summary]

(***************************************************************************)
(* MusicAnalyzer.analyze_music                                             *)
(***************************************************************************)
\* a fast tempo read as one more signal
AnalyzeMusicTempo(valence, energy, tempo, danceability) ==
  LET tier == IF energy > ENERGY_HIGH
                THEN [vibe |-> "BOOST",
                      s |-> << <<"pumped", "strong">>,
                               <<"energetic", "strong">> >>]
              ELSE IF energy > 50
                THEN [vibe |-> "VIBE", s |-> << <<"energetic", "moderate">> >>]
              ELSE [vibe |-> "CHILL", s |-> << <<"chill", "strong">> >>]
      v == IF valence > 60 THEN << <<"confident", "moderate">> >> ELSE <<>>
      d == IF danceability > 70 THEN << <<"creative", "moderate">> >> ELSE <<>>
      t == IF tempo > 140 THEN << <<"pumped", "moderate">> >> ELSE <<>>
  IN [valence |-> valence,
      energy |-> energy,
      tempo |-> tempo,
      danceability |-> danceability,
      vibe |-> tier.vibe,
      mood_signals |-> tier.s \o v \o d \o t,
      analysis |-> [v |-> valence, e |-> energy, vibe |-> tier.vibe]]

\* the danceability check made only when the valence check fails
AnalyzeMusicChained(valence, energy, tempo, danceability) ==
  LET tier == IF energy > ENERGY_HIGH
                THEN [vibe |-> "BOOST",
                      s |-> << <<"pumped", "strong">>,
                               <<"energetic", "strong">> >>]
              ELSE IF energy > 50
                THEN [vibe |-> "VIBE", s |-> << <<"energetic", "moderate">> >>]
              ELSE [vibe |-> "CHILL", s |-> << <<"chill", "strong">> >>]
      v == IF valence > 60 THEN << <<"confident", "moderate">> >> ELSE <<>>
      d == IF valence <= 60 /\ danceability > 70
             THEN << <<"creative", "moderate">> >> ELSE <<>>
  IN [valence |-> valence,
      energy |-> energy,
      tempo |-> tempo,
      danceability |-> danceability,
      vibe |-> tier.vibe,
      mood_signals |-> tier.s \o v \o d,
      analysis |-> [v |-> valence, e |-> energy, vibe |-> tier.vibe]]

\* lines 338-373

AnalyzeMusic(valence, energy, tempo, danceability) ==
  LET tier == IF energy > ENERGY_HIGH
                THEN [vibe |-> "BOOST",
                      s |-> << <<"pumped", "strong">>,
                               <<"energetic", "strong">> >>]
              ELSE IF energy > 50
                THEN [vibe |-> "VIBE", s |-> << <<"energetic", "moderate">> >>]
              ELSE [vibe |-> "CHILL", s |-> << <<"chill", "strong">> >>]
      v == IF valence > 60 THEN << <<"confident", "moderate">> >> ELSE <<>>
      d == IF danceability > 70 THEN << <<"creative", "moderate">> >> ELSE <<>>
  IN [valence |-> valence,
      energy |-> energy,
      tempo |-> tempo,
      danceability |-> danceability,
      vibe |-> tier.vibe,
      mood_signals |-> tier.s \o v \o d,
      analysis |-> [v |-> valence, e |-> energy, vibe |-> tier.vibe]]

(***************************************************************************)
(* TimeAnalyzer.analyze_time                                               *)
(***************************************************************************)
DayNames ==
  <<"Monday", "Tuesday", "Wednesday", "Thursday", "Friday", "Saturday",
    "Sunday">>

\* the weekly rhythm with Saturday scored as Friday
AnalyzeTimeSaturdayAsFriday(hour, weekday, execution_type) ==
  LET day_name == IF 0 <= weekday /\ weekday < 7
                    THEN DayNames[weekday + 1]
                    ELSE "Unknown"
      sigs == IF weekday = 0
                THEN << <<"energetic", "strong">>, <<"pumped", "moderate">> >>
              ELSE IF weekday \in {4, 5}
                THEN << <<"tired", "moderate">>, <<"chill", "strong">> >>
              ELSE IF weekday = 6
                THEN << <<"chill", "strong">> >>
              ELSE <<>>
  IN [hour |-> hour,
      day |-> day_name,
      mood_signals |-> sigs,
      analysis |-> [day |-> day_name, hour |-> hour]]

\* Friday read as a day that lowers energy
AnalyzeTimeFridayWeak(hour, weekday, execution_type) ==
  LET day_name == IF 0 <= weekday /\ weekday < 7
                    THEN DayNames[weekday + 1]
                    ELSE "Unknown"
      sigs == IF weekday = 0
                THEN << <<"energetic", "strong">>, <<"pumped", "moderate">> >>
              ELSE IF weekday = 4
                THEN << <<"energetic", "weak">>, <<"chill", "strong">> >>
              ELSE IF weekday \in {5, 6}
                THEN << <<"chill", "strong">> >>
              ELSE <<>>
  IN [hour |-> hour,
      day |-> day_name,
      mood_signals |-> sigs,
      analysis |-> [day |-> day_name, hour |-> hour]]

\* lines 380-410
AnalyzeTime(hour, weekday, execution_type) ==
  LET day_name == IF 0 <= weekday /\ weekday < 7
                    THEN DayNames[weekday + 1]
                    ELSE "Unknown"
      sigs == IF weekday = 0
                THEN << <<"energetic", "strong">>, <<"pumped", "moderate">> >>
              ELSE IF weekday = 4
                THEN << <<"tired", "moderate">>, <<"chill", "strong">> >>
              ELSE IF weekday \in {5, 6}
                THEN << <<"chill", "strong">> >>
              ELSE <<>>
  IN [hour |-> hour,
      day |-> day_name,
      mood_signals |-> sigs,
      analysis |-> [day |-> day_name, hour |-> hour]]

(***************************************************************************)
(* MoodDataAnalyzer._score_moods                                           *)
(***************************************************************************)
\* strength_weights (lines 502-509)
StrengthWeights ==
  [very_weak |-> -30, weak |-> -10, neutral |-> 0, moderate |-> 5,
   strong |-> 10, very_strong |-> 30]

\* source_weights.get(source, 1.0), percent
WeightOf(source_weights, source) ==
  IF source \in DOMAIN source_weights THEN source_weights[source] ELSE 100

\* line 500
ZeroScores == [m \in Moods |-> 0]

\* the loop assigning each product instead of adding it
RECURSIVE AccumulateOverwrite(_, _, _, _)
AccumulateOverwrite(scores, signals, i, source_weights) ==
  IF i > Len(signals)
    THEN scores
    ELSE LET base_score == StrengthWeights[signals[i][2]]
             weight == WeightOf(source_weights, signals[i][3])
         IN AccumulateOverwrite(
              [scores EXCEPT ![signals[i][1]] = base_score * weight * 2],
              signals, i + 1, source_weights)

\* the loop of lines 511-514; a signal is <<mood, strength, source>>
RECURSIVE Accumulate(_, _, _, _)
Accumulate(scores, signals, i, source_weights) ==
  IF i > Len(signals)
    THEN scores
    ELSE LET base_score == StrengthWeights[signals[i][2]]
             weight == WeightOf(source_weights, signals[i][3])
         IN Accumulate(
              [scores EXCEPT ![signals[i][1]] = @ + base_score * weight * 2],
              signals, i + 1, source_weights)

MinValue(scores) ==
  CHOOSE v \in Range(scores) : \A w \in Range(scores) : v <= w

MaxValue(scores) ==
  CHOOSE v \in Range(scores) : \A w \in Range(scores) : v >= w

\* negative scores floored at 0 instead of shifted
NormalizeClamp(scores) ==
  [k \in DOMAIN scores |-> IF scores[k] < 0 THEN 0 ELSE scores[k]]

\* the shift applied with the wrong sign
NormalizeWrongSign(scores) ==
  LET min_score == MinValue(scores)
  IN IF min_score < 0
       THEN [k \in DOMAIN scores |-> scores[k] + min_score]
       ELSE scores

\* lines 516-520
Normalize(scores) ==
  LET min_score == MinValue(scores)
  IN IF min_score < 0
       THEN [k \in DOMAIN scores |-> scores[k] - min_score]
       ELSE scores

\* the veto without its 50% margin
ApplyVetoNoMargin(scores, veto_sleep) ==
  IF veto_sleep
    THEN [scores EXCEPT !["tired"] = MaxValue(scores)]
    ELSE scores

\* lines 522-526
ApplyVeto(scores, veto_sleep) ==
  IF veto_sleep
    THEN LET max_current == MaxValue(scores)
         IN [scores EXCEPT !["tired"] = (max_current * 3) \div 2]
    ELSE scores

\* the dict after the loop, after the normalization, and as returned
ScoreTrace(signals, source_weights, veto_sleep) ==
  LET acc == Accumulate(ZeroScores, signals, 1, source_weights)
      shifted == Normalize(acc)
  IN [acc |-> acc, shifted |-> shifted,
      result |-> ApplyVeto(shifted, veto_sleep)]

ScoreMoods(signals, source_weights, veto_sleep) ==
  ScoreTrace(signals, source_weights, veto_sleep).result

(***************************************************************************)
(* MoodDataAnalyzer.analyze and _generate_summary                          *)
(***************************************************************************)
\* position of each mood in the key order of a mood_scores dict
MoodIndex == [m \in Moods |-> CHOOSE i \in DOMAIN MoodCategory : MoodCategory[i] = m]

\* a sorts before b: higher score first; Python's sort is stable, also when
\* reversed, so equal scores keep the dict's key order
Before(scores, a, b) ==
  \/ scores[a] > scores[b]
  \/ scores[a] = scores[b] /\ MoodIndex[a] < MoodIndex[b]

\* the first of the keys in rest, in sorted order
First(scores, rest) ==
  CHOOSE m \in rest : \A o \in rest : o = m \/ Before(scores, m, o)

\* sorted(mood_scores.items(), key=score, reverse=True) (line 485)
RECURSIVE SortedFrom(_, _)
SortedFrom(scores, rest) ==
  IF rest = {}
    THEN <<>>
    ELSE LET m == First(scores, rest)
         IN <<(<<m, scores[m]>>)>> \o SortedFrom(scores, rest \ {m})

\* the items in key order, not sorted
SortedItemsKeyOrder(scores) ==
  [i \in DOMAIN MoodCategory |-> <<MoodCategory[i], scores[MoodCategory[i]]>>]

SortedItems(scores) == SortedFrom(scores, DOMAIN scores)

\* max over the items in key order: an item replaces the best one so far
\* only when its score is strictly greater
RECURSIVE MaxScan(_, _, _)
MaxScan(scores, i, best) ==
  IF i > Len(MoodCategory)
    THEN best
    ELSE MaxScan(scores, i + 1,
                 IF scores[MoodCategory[i]] > scores[best]
                   THEN MoodCategory[i] ELSE best)

\* max taking the last of the items that tie
RECURSIVE MaxScanLast(_, _, _)
MaxScanLast(scores, i, best) ==
  IF i > Len(MoodCategory)
    THEN best
    ELSE MaxScanLast(scores, i + 1,
                     IF scores[MoodCategory[i]] >= scores[best]
                       THEN MoodCategory[i] ELSE best)

TopMoodLastOfTies(scores) == MaxScanLast(scores, 2, MoodCategory[1])

\* max(scores.items(), key=score)[0] (line 534): the first key of the
\* highest score
TopMood(scores) == MaxScan(scores, 2, MoodCategory[1])

\* str.upper() of a mood value
MoodUpper(m) ==
  CASE m = "creative" -> "CREATIVE"
    [] m = "hard_work" -> "HARD_WORK"
    [] m = "confident" -> "CONFIDENT"
    [] m = "chill" -> "CHILL"
    [] m = "energetic" -> "ENERGETIC"
    [] m = "melancholy" -> "MELANCHOLY"
    [] m = "intense" -> "INTENSE"
    [] m = "pumped" -> "PUMPED"
    [] m = "tired" -> "TIRED"

\* _generate_summary (lines 531-546)
GenerateSummary(agenda, sleep, weather, music, time, scores) ==
  [agenda |-> agenda.analysis, sleep |-> sleep.analysis,
   weather |-> weather.analysis, music |-> music.analysis,
   time |-> time.analysis, top_mood |-> MoodUpper(TopMood(scores))]

\* lines 444-457
Tagged(signals, source) ==
  [i \in DOMAIN signals |-> <<signals[i][1], signals[i][2], source>>]

\* the weights of the module docstring (lines 8-12), where the agenda has 40%
SourceWeightsDocstring ==
  [agenda |-> 40, sleep |-> 35, weather |-> 15, music |-> 10, time |-> 5]

\* a table with the sleep weight lowered to 30% and the agenda raised to 40%
SourceWeightsSleepThirty ==
  [agenda |-> 40, sleep |-> 30, weather |-> 15, music |-> 10, time |-> 5]

\* lines 459-466
SourceWeights ==
  [agenda |-> WEIGHT_AGENDA, sleep |-> WEIGHT_SLEEP,
   weather |-> WEIGHT_WEATHER, music |-> WEIGHT_MUSIC, time |-> WEIGHT_TIME]

Weekday(day) == day % 7

\* analyze (lines 427-490), called while the wall clock shows clock: the
\* value it returns, [status |-> "raised", ...] when a sub-analyzer raises,
\* and the _score_moods call it makes (lines 469-473)
AnalyzeCall(a, clock) ==
  LET agenda_analysis ==
        AnalyzeEvents(a.calendar_events, a.current_time.hour, clock)
      sleep_analysis ==
        AnalyzeSleep(a.sleep_hours, a.bedtime, a.wake_time, a.execution_type)
      weather_analysis ==
        AnalyzeWeather(a.weather, a.temperature, a.execution_type)
      music_analysis ==
        AnalyzeMusic(a.valence, a.energy, a.tempo, a.danceability)
      time_analysis ==
        AnalyzeTime(a.current_time.hour, Weekday(a.current_time.day),
                    a.execution_type)
      all_signals_with_source ==
        Tagged(agenda_analysis.mood_signals, "agenda")
        \o Tagged(sleep_analysis.mood_signals, "sleep")
        \o Tagged(weather_analysis.mood_signals, "weather")
        \o Tagged(music_analysis.mood_signals, "music")
        \o Tagged(time_analysis.mood_signals, "time")
      trace ==
        ScoreTrace(all_signals_with_source, SourceWeights, sleep_analysis.veto)
      mood_scores == trace.result
  IN [signals |-> all_signals_with_source,
      veto_sleep |-> sleep_analysis.veto,
      trace |-> trace,
      report |->
        IF agenda_analysis.raised # "None"
          THEN [status |-> "raised", error |-> agenda_analysis.raised]
          ELSE [status |-> "returned",
                timestamp |-> a.current_time,
                execution_type |-> a.execution_type,
                source_weights |-> SourceWeights,
                agenda |-> agenda_analysis,
                sleep |-> sleep_analysis,
                weather |-> weather_analysis,
                music |-> music_analysis,
                time |-> time_analysis,
                mood_scores |-> mood_scores,
                top_moods |-> Take(SortedItems(mood_scores), 3),
                summary |-> GenerateSummary(agenda_analysis, sleep_analysis,
                                            weather_analysis, music_analysis,
                                            time_analysis, mood_scores)]]

(***************************************************************************)
(* Inputs                                                                  *)
(***************************************************************************)
\* bounds of the model
HourSpan == 2       \* the hours of a day are 9 .. 9 + HourSpan
ClockDays == 0      \* the wall clock runs over 1 + ClockDays days
MaxEvents == 2      \* longest calendar of the agenda specification
MaxSignals == 2     \* longest signal list handed to _score_moods directly

Hours == 9..(9 + HourSpan)

\* the day the wall clock starts on (a Tuesday), and the days it reaches
FirstDay == 7 + 1

ClockDaySet == FirstDay..(FirstDay + ClockDays)

TxtExamenFinal == <<"E", "x", "a", "m", "e", "n", " ", "F", "i", "n", "a", "l">>
TxtReunion ==
  <<"R", "e1", "u", "n", "i", "o", "n", " ", "e1", "q", "u", "i", "p", "e">>
TxtCrossfit == <<"C", "r", "o", "s", "s", "f", "i", "t">>
TxtYoga == <<"y", "o", "g", "a">>
TxtDesign == <<"d", "e", "s", "i", "g", "n">>
TxtConcert == <<"c", "o", "n", "c", "e", "r", "t">>
TxtResto == <<"r", "e", "s", "t", "o">>
TxtDentiste == <<"d", "e", "n", "t", "i", "s", "t", "e">>
TxtMatchYoga == <<"m", "a", "t", "c", "h", " ", "y", "o", "g", "a">>
TxtExamDesign == <<"e", "x", "a", "m", " ", "d", "e", "s", "i", "g", "n">>
TxtReunionBar == <<"r", "e", "u", "n", "i", "o", "n", " ", "b", "a", "r">>

TxtPluie == <<"P", "l", "u", "i", "e">>
TxtNuageux == <<"N", "u", "a", "g", "e", "u", "x">>
TxtEnsoleille == <<"E", "n", "s", "o", "l", "e", "i", "l", "l", "e1">>
TxtNeige == <<"N", "e", "i", "g", "e">>

\* {summary, start: {dateTime}} that parses to (day, hour)
TimedEvent(summary, day, hour) ==
  [has_summary |-> TRUE, summary |-> summary,
   start |-> [kind |-> "dateTime", ok |-> TRUE, day |-> day, hour |-> hour]]

\* {summary, start: {date}} that parses to day
DatedEvent(summary, day) ==
  [has_summary |-> TRUE, summary |-> summary,
   start |-> [kind |-> "date", ok |-> TRUE, day |-> day, hour |-> 0]]

\* an event whose start string does not parse, under either key
BadEvent(summary, kind) ==
  [has_summary |-> TRUE, summary |-> summary,
   start |-> [kind |-> kind, ok |-> FALSE, day |-> 0, hour |-> 0]]

\* an event with an empty or missing start
NoStartEvent(summary) ==
  [has_summary |-> TRUE, summary |-> summary,
   start |-> [kind |-> "none", ok |-> FALSE, day |-> 0, hour |-> 0]]

\* an event without a summary key
UntitledEvent(day, hour) ==
  [has_summary |-> FALSE, summary |-> <<>>,
   start |-> [kind |-> "dateTime", ok |-> TRUE, day |-> day, hour |-> hour]]

ExecutionTypes == {"MATIN", "APRES_MIDI", "SOIREE"}

\* the labels callers pass; the last one is the label the unit test passes
ExecutionLabels == ExecutionTypes \cup {"APRES-MIDI"}

\* tenths of an hour, around every threshold
SleepSamples == {-10, 0, 1, 40, 59, 60, 69, 70, 79, 80, 84, 85, 95}

Weathers == {TxtPluie, TxtEnsoleille, TxtNeige}

\* (valence, energy, danceability), hundredths
MusicProfiles == {<<50, 50, 50>>, <<80, 80, 80>>}

\* current_time: a Monday, the day the wall clock starts on, and a Friday
ReferenceTimes == {[day |-> d, hour |-> 9 + 1] : d \in {7, FirstDay, 11}}

MainCalendars ==
  { <<>>,
    <<TimedEvent(TxtCrossfit, FirstDay, 9 + 1)>>,
    <<TimedEvent(TxtExamenFinal, FirstDay, 9 + 1)>>,
    <<DatedEvent(TxtExamenFinal, FirstDay + 1),
      TimedEvent(TxtCrossfit, FirstDay, 9 + HourSpan)>>,
    <<BadEvent(TxtExamenFinal, "dateTime"), BadEvent(TxtYoga, "date"),
      NoStartEvent(TxtCrossfit), UntitledEvent(FirstDay, 9 + HourSpan)>> }

MakeArgs(events, sleep, weather, music, ref, label) ==
  [calendar_events |-> events, sleep_hours |-> sleep,
   bedtime |-> "Unknown", wake_time |-> "Unknown",
   weather |-> weather, temperature |-> 20,
   valence |-> music[1], energy |-> music[2], tempo |-> 120,
   danceability |-> music[3],
   current_time |-> ref, execution_type |-> label]

MainArgs ==
  {MakeArgs(ev, sl, w, mu, ref, lab) :
     ev \in MainCalendars, sl \in SleepSamples, w \in Weathers,
     mu \in MusicProfiles, ref \in ReferenceTimes, lab \in ExecutionLabels}

DefaultArgs ==
  MakeArgs(<<>>, 80, TxtNeige, <<50, 50, 50>>, [day |-> FirstDay, hour |-> 9],
           "MATIN")

\* the sequences over S of length at most n
RECURSIVE ListsUpTo(_, _)
ListsUpTo(S, n) ==
  IF n = 0
    THEN {<<>>}
    ELSE LET shorter == ListsUpTo(S, n - 1)
         IN shorter \cup {Append(l, x) : l \in {k \in shorter : Len(k) = n - 1},
                                         x \in S}

\* calendars of the agenda specification: every category and three summaries
\* that match two keyword lists, at 10 h today; an exam given by date only,
\* today and tomorrow
AgendaSummaries ==
  {TxtExamenFinal, TxtReunion, TxtCrossfit, TxtYoga, TxtDesign, TxtConcert,
   TxtResto, TxtDentiste, TxtMatchYoga, TxtExamDesign, TxtReunionBar}

AgendaEvents ==
  {TimedEvent(s, FirstDay, 9 + 1) : s \in AgendaSummaries}
  \cup {DatedEvent(TxtExamenFinal, FirstDay),
        DatedEvent(TxtExamenFinal, FirstDay + 1)}

AgendaArgs ==
  {[DefaultArgs EXCEPT !.calendar_events = ev] :
     ev \in ListsUpTo(AgendaEvents, MaxEvents)}

\* signals handed to _score_moods directly
SignalUniverse ==
  {<<m, s, src>> : m \in {"tired", "pumped", "chill"}, s \in Strengths,
                   src \in {"sleep", "manual"}}

(***************************************************************************)
(* predict_mood and _extract_valid_mood (adapters/clients/gemini.py)       *)
(***************************************************************************)
\* VALID_MOODS (gemini.py:42-45): each mood and its text
VALID_MOODS ==
  [creative |-> <<"c", "r", "e", "a", "t", "i", "v", "e">>,
   hard_work |-> <<"h", "a", "r", "d", "_", "w", "o", "r", "k">>,
   confident |-> <<"c", "o", "n", "f", "i", "d", "e", "n", "t">>,
   chill |-> <<"c", "h", "i", "l", "l">>,
   energetic |-> <<"e", "n", "e", "r", "g", "e", "t", "i", "c">>,
   melancholy |-> <<"m", "e", "l", "a", "n", "c", "h", "o", "l", "y">>,
   intense |-> <<"i", "n", "t", "e", "n", "s", "e">>,
   pumped |-> <<"p", "u", "m", "p", "e", "d">>,
   tired |-> <<"t", "i", "r", "e", "d">>]

\* PREFERRED_MODELS (gemini.py:48-54)
PREFERRED_MODELS ==
  <<"gemini-2.5-flash", "gemini-2.0-flash", "gemini-2.0-flash-lite",
    "gemini-flash-latest", "gemini-pro">>

Whitespace == {" ", "\n", "\t"}

\* str.strip()
RECURSIVE Strip(_)
Strip(s) ==
  IF s = <<>>
    THEN s
  ELSE IF Head(s) \in Whitespace
    THEN Strip(Tail(s))
  ELSE IF s[Len(s)] \in Whitespace
    THEN Strip(SubSeq(s, 1, Len(s) - 1))
  ELSE s

\* str.replace(c, empty string) for a one-character c
Remove(s, c) == SelectSeq(s, LAMBDA x : x # c)

\* the cleaning without lower()
CleanResponseNoLower(response_text) ==
  Remove(Remove(Strip(response_text), "."), "\n")

\* gemini.py:519
CleanResponse(response_text) ==
  Remove(Remove(Lower(Strip(response_text)), "."), "\n")

\* _extract_valid_mood (gemini.py:509-523): VALID_MOODS is a set, whose
\* iteration order is not fixed, so the value returned is any of the moods
\* found in the cleaned text; the empty set stands for None
ExtractValidMood(response_text) ==
  LET cleaned == CleanResponse(response_text)
  IN {m \in DOMAIN VALID_MOODS : Contains(VALID_MOODS[m], cleaned)}

\* response.text of a model
RespConfident == <<"c", "o", "n", "f", "i", "d", "e", "n", "t">>
RespTiredSentence == <<" ", "T", "i", "r", "e", "d", ".", "\n">>
RespDotted == <<"t", "i", ".", "r", "e", "d">>
RespHappy == <<"h", "a", "p", "p", "y">>
RespEmpty == <<>>
RespHardWorkSpaced == <<"h", "a", "r", "d", " ", "w", "o", "r", "k">>
RespTwoMoods ==
  <<"c", "h", "i", "l", "l", " ", "o", "r", " ", "p", "u", "m", "p", "e",
    "d">>
RespUpper == <<"H", "A", "R", "D", "_", "W", "O", "R", "K">>

ResponseTexts ==
  {RespConfident, RespTiredSentence, RespDotted, RespHappy, RespEmpty,
   RespHardWorkSpaced, RespTwoMoods, RespUpper}

GeminiIdle ==
  [pc |-> "idle", dry_run |-> FALSE, has_key |-> TRUE, model_index |-> 1,
   tried |-> <<>>, result |-> "None"]

\* predict_mood up to the cascade (gemini.py:556-602): the pre-processing is
\* non-blocking and the prompt is built; a dry run returns the prompt, a
\* missing GEMINI_API_KEY returns chill
PredictMoodBegin ==
  /\ gemini.pc = "idle"
  /\ gemini' =
       IF gemini.dry_run
         THEN [gemini EXCEPT !.pc = "returned", !.result = "dry_run"]
       ELSE IF ~gemini.has_key
         THEN [gemini EXCEPT !.pc = "returned", !.result = "chill"]
       ELSE [gemini EXCEPT !.pc = "cascade", !.model_index = 1]
  /\ UNCHANGED <<engine_vars, db, run>>

\* one iteration of the loop (gemini.py:604-619) in which GenerativeModel,
\* generate_content or response.text raises: the except clause continues
ModelRaises ==
  /\ gemini.pc = "cascade"
  /\ gemini.model_index <= Len(PREFERRED_MODELS)
  /\ gemini' =
       [gemini EXCEPT
          !.tried = Append(@, [model |-> PREFERRED_MODELS[gemini.model_index],
                               raised |-> TRUE, text |-> <<>>]),
          !.model_index = @ + 1]
  /\ UNCHANGED <<engine_vars, db, run>>

\* one iteration in which the model answers: the mood extracted is returned,
\* an answer without a mood moves to the next model
ModelAnswers ==
  /\ gemini.pc = "cascade"
  /\ gemini.model_index <= Len(PREFERRED_MODELS)
  /\ \E text \in ResponseTexts :
       LET moods == ExtractValidMood(text)
           tried == Append(gemini.tried,
                           [model |-> PREFERRED_MODELS[gemini.model_index],
                            raised |-> FALSE, text |-> text])
       IN IF moods # {}
            THEN \E mood \in moods :
                   gemini' = [gemini EXCEPT !.tried = tried,
                                            !.pc = "returned",
                                            !.result = mood]
            ELSE gemini' = [gemini EXCEPT !.tried = tried,
                                          !.model_index = @ + 1]
  /\ UNCHANGED <<engine_vars, db, run>>

\* the loop is exhausted (gemini.py:621-622)
AllModelsFailed ==
  /\ gemini.pc = "cascade"
  /\ gemini.model_index > Len(PREFERRED_MODELS)
  /\ gemini' = [gemini EXCEPT !.pc = "returned", !.result = "chill"]
  /\ UNCHANGED <<engine_vars, db, run>>

NextGemini ==
  PredictMoodBegin \/ ModelRaises \/ ModelAnswers \/ AllModelsFailed

(***************************************************************************)
(* DailyLogManager.save_log (adapters/repositories/mongo.py)               *)
(*                                                                         *)
(* A log entry is [has_date, date, has_type, execution_type,               *)
(* mood_selected]: has_date and has_type tell whether the dict holds the   *)
(* keys date and execution_type. A stored document is an entry with the    *)
(* _id the collection gave it.                                             *)
(***************************************************************************)
MaxSaves == 3       \* save_log calls made on the collection

LogEntry(date, execution_type, mood) ==
  [has_date |-> TRUE, date |-> date, has_type |-> TRUE,
   execution_type |-> execution_type, mood_selected |-> mood]

\* an entry without the execution_type key
UntypedEntry(date, mood) ==
  [has_date |-> TRUE, date |-> date, has_type |-> FALSE,
   execution_type |-> "", mood_selected |-> mood]

\* an entry without the date key
UndatedEntry(execution_type, mood) ==
  [has_date |-> FALSE, date |-> "", has_type |-> TRUE,
   execution_type |-> execution_type, mood_selected |-> mood]

LogDates == {"2024-12-16", "2024-12-17"}

LogEntries ==
  {LogEntry(d, t, m) : d \in LogDates, t \in {"MATIN", "SOIREE"},
                       m \in {"tired", "chill"}}
  \cup {UntypedEntry(d, m) : d \in LogDates, m \in {"tired", "chill"}}
  \cup {UndatedEntry("MATIN", "tired"), LogEntry("", "MATIN", "tired")}

\* the filter {date: date_str, execution_type: execution_type} selects a
\* document that holds both fields with these values
Matches(doc, date_str, execution_type) ==
  /\ doc.entry.has_date
  /\ doc.entry.date = date_str
  /\ doc.entry.has_type
  /\ doc.entry.execution_type = execution_type

\* collection.replace_one(filter, replacement, upsert=True) (mongo.py:186-190):
\* the first matching document is replaced and keeps its _id; without a
\* match the replacement document is inserted as it is
ReplaceOne(collection, date_str, execution_type, replacement) ==
  LET hits == {i \in DOMAIN collection :
                 Matches(collection[i], date_str, execution_type)}
  IN IF hits # {}
       THEN LET i == CHOOSE j \in hits : \A k \in hits : j <= k
            IN [collection EXCEPT ![i].entry = replacement]
       ELSE Append(collection,
                   [id |-> Len(collection) + 1, entry |-> replacement])

\* save_log (mongo.py:165-202) when the server answers
SaveLogCall(collection, entry) ==
  LET date_str == IF entry.has_date THEN entry.date ELSE ""
      execution_type ==
        IF entry.has_type THEN entry.execution_type ELSE "UNKNOWN"
  IN IF date_str = ""
       THEN [raised |-> "MongoDBOperationError", collection |-> collection]
       ELSE [raised |-> "None",
             collection |-> ReplaceOne(collection, date_str, execution_type,
                                       entry)]

DbEmpty ==
  [collection |-> <<>>, saves |-> <<>>, calls |-> 0, outcome |-> "None"]

\* a save_log call; saves keeps the entries saved so far, in order
SaveLog ==
  /\ db.calls < MaxSaves
  /\ \E entry \in LogEntries :
       LET r == SaveLogCall(db.collection, entry)
       IN db' = [collection |-> r.collection,
                 saves |-> IF r.raised = "None"
                             THEN Append(db.saves, entry)
                             ELSE db.saves,
                 calls |-> db.calls + 1,
                 outcome |-> r.raised]
  /\ UNCHANGED <<engine_vars, gemini, run>>

\* a save_log call in which replace_one raises: the error is wrapped in
\* MongoDBOperationError (mongo.py:197-202) and nothing is written
SaveLogServerError ==
  /\ db.calls < MaxSaves
  /\ \E entry \in LogEntries :
       /\ entry.has_date /\ entry.date # ""
       /\ db' = [db EXCEPT !.calls = @ + 1,
                           !.outcome = "MongoDBOperationError"]
  /\ UNCHANGED <<engine_vars, gemini, run>>

NextMongo == SaveLog \/ SaveLogServerError

(***************************************************************************)
(* main() and its helpers (main.py)                                        *)
(*                                                                         *)
(* A local variable that no assignment has reached holds Unbound; reading  *)
(* it raises UnboundLocalError.                                            *)
(***************************************************************************)
DEFAULT_FALLBACK_MOOD == "energetic"

Unbound == "<unbound>"

\* fetch_historical_moods (main.py:112-148): every database error is caught
FetchHistoricalMoods(dry_run, db_ok) ==
  IF dry_run
    THEN [raised |-> FALSE, value |-> "[]"]
  ELSE IF db_ok
    THEN [raised |-> FALSE, value |-> "moods"]
  ELSE [raised |-> FALSE, value |-> "[]"]

\* the helper letting the calendar client's exception through
GetCalendarSummaryPropagates(calendar_ok) ==
  IF calendar_ok
    THEN [raised |-> FALSE, value |-> "events"]
    ELSE [raised |-> TRUE, value |-> Unbound]

\* get_calendar_summary (main.py:206-216)
GetCalendarSummary(calendar_ok) ==
  IF calendar_ok
    THEN [raised |-> FALSE, value |-> "events"]
    ELSE [raised |-> FALSE, value |-> "Error fetching calendar"]

\* get_weather_summary (main.py:219-228)
GetWeatherSummary(weather_ok) ==
  IF weather_ok
    THEN [raised |-> FALSE, value |-> "weather"]
    ELSE [raised |-> FALSE, value |-> "Weather unavailable (Error)"]

\* get_music_summary_for_window (main.py:303-402)
GetMusicSummaryForWindow(music_ok) ==
  IF music_ok
    THEN [raised |-> FALSE, value |-> "music"]
    ELSE [raised |-> FALSE,
          value |-> "No music data available (Error fetching)."]

\* the try block of main.py:494-500: the three helpers in sequence; the
\* except clause assigns weather_summary only
CollectContext(r, db_ok, calendar_ok, weather_ok) ==
  LET h == FetchHistoricalMoods(r.dry_run, db_ok)
      c == GetCalendarSummary(calendar_ok)
      w == GetWeatherSummary(weather_ok)
  IN IF h.raised
       THEN [r EXCEPT !.weather_summary = "Weather Error"]
     ELSE IF c.raised
       THEN [r EXCEPT !.historical_moods = h.value,
                      !.weather_summary = "Weather Error"]
     ELSE IF w.raised
       THEN [r EXCEPT !.historical_moods = h.value,
                      !.calendar_summary = c.value,
                      !.weather_summary = "Weather Error"]
     ELSE [r EXCEPT !.historical_moods = h.value,
                    !.calendar_summary = c.value,
                    !.weather_summary = w.value]

Failed(r, names) == [r EXCEPT !.failed = @ \cup names]

RunIdle ==
  [pc |-> "idle", dry_run |-> FALSE, no_ai |-> FALSE,
   override_location |-> "None", historical_moods |-> Unbound,
   calendar_summary |-> Unbound, weather_summary |-> Unbound,
   music_summary |-> Unbound, mood |-> Unbound, failed |-> {},
   alerts |-> {}, profile |-> "None", log |-> "None", error |-> "None"]

\* main.py:432-450: arguments, timestamp and STEP 0, the database maintenance
MainMaintenance ==
  /\ run.pc = "start"
  /\ \E maintenance_ok \in (IF run.dry_run THEN {TRUE} ELSE BOOLEAN) :
       run' = [Failed(run, IF maintenance_ok THEN {} ELSE {"maintenance"})
                 EXCEPT !.pc = "overrides"]
  /\ UNCHANGED <<engine_vars, gemini, db>>

\* main.py:458-492: the mobile overrides; get_daily_override answers an empty
\* dict when the database fails, a feedback value that is no number makes
\* float() raise before the location is read
MainOverrides ==
  /\ run.pc = "overrides"
  /\ \E outcome \in {"db_error", "empty", "location", "bad_feedback"} :
       run' =
         [Failed(run, IF outcome \in {"db_error", "bad_feedback"}
                        THEN {"overrides"} ELSE {})
            EXCEPT !.pc = "context",
                   !.override_location =
                      IF outcome = "location" THEN "Paris" ELSE "None"]
  /\ UNCHANGED <<engine_vars, gemini, db>>

\* main.py:494-500
MainContext ==
  /\ run.pc = "context"
  /\ \E db_ok \in (IF run.dry_run THEN {TRUE} ELSE BOOLEAN),
        calendar_ok \in BOOLEAN, weather_ok \in BOOLEAN :
       run' =
         [Failed(CollectContext(run, db_ok, calendar_ok, weather_ok),
                 (IF db_ok THEN {} ELSE {"history"})
                 \cup (IF calendar_ok THEN {} ELSE {"calendar"})
                 \cup (IF weather_ok THEN {} ELSE {"weather"}))
            EXCEPT !.pc = "music"]
  /\ UNCHANGED <<engine_vars, gemini, db>>

\* main.py:502-526: the argument calendar_summary is read inside the try
MainMusic ==
  /\ run.pc = "music"
  /\ \E music_ok \in BOOLEAN, alert_ok \in BOOLEAN :
       LET m == GetMusicSummaryForWindow(music_ok)
           named == Failed(run, IF music_ok THEN {} ELSE {"music"})
       IN run' =
            IF run.calendar_summary = Unbound \/ m.raised
              THEN [named EXCEPT
                      !.pc = "predict",
                      !.music_summary = "Error fetching music data",
                      !.alerts = IF ~run.dry_run /\ alert_ok
                                   THEN @ \cup {"YouTube Music"} ELSE @]
              ELSE [named EXCEPT !.pc = "predict",
                                 !.music_summary = m.value]
  /\ UNCHANGED <<engine_vars, gemini, db>>

\* main.py:529-566, STEP 2: result is what predict_mood returns; on a dry run
\* it is the dict whose mood is dry_run and the prompt is written to a file
MainPredict ==
  /\ run.pc = "predict"
  /\ \E events_ok \in BOOLEAN, result \in {"raise", "chill", "tired"},
        file_ok \in BOOLEAN :
       run' =
         IF run.no_ai
           THEN [run EXCEPT !.pc = "instagram",
                            !.mood = DEFAULT_FALLBACK_MOOD]
         ELSE IF ~events_ok
           THEN [Failed(run, {"calendar_events"})
                   EXCEPT !.pc = "instagram", !.mood = DEFAULT_FALLBACK_MOOD]
         ELSE IF run.historical_moods = Unbound
           THEN [run EXCEPT !.pc = "instagram",
                            !.mood = DEFAULT_FALLBACK_MOOD]
         ELSE IF result = "raise"
           THEN [Failed(run, {"predict_mood"})
                   EXCEPT !.pc = "instagram", !.mood = DEFAULT_FALLBACK_MOOD]
         ELSE IF run.dry_run
           THEN IF file_ok
                  THEN [run EXCEPT !.pc = "instagram", !.mood = "dry_run"]
                  ELSE [Failed(run, {"prompt_file"})
                          EXCEPT !.pc = "instagram",
                                 !.mood = DEFAULT_FALLBACK_MOOD]
         ELSE [run EXCEPT !.pc = "instagram", !.mood = result]
  /\ UNCHANGED <<engine_vars, gemini, db>>

\* main.py:569-581, STEP 3; create_failure_alert catches its own errors
MainInstagram ==
  /\ run.pc = "instagram"
  /\ \E update_ok \in BOOLEAN, alert_ok \in BOOLEAN :
       run' =
         IF run.dry_run
           THEN [run EXCEPT !.pc = "save"]
         ELSE IF update_ok
           THEN [run EXCEPT !.pc = "save", !.profile = run.mood]
         ELSE [Failed(run, {"instagram"})
                 EXCEPT !.pc = "save",
                        !.alerts = IF alert_ok
                                     THEN @ \cup {"Instagram Update"} ELSE @]
  /\ UNCHANGED <<engine_vars, gemini, db>>

\* main.py:584-595, STEP 4: the arguments of save_daily_log are read outside
\* any try; save_daily_log (main.py:151-199) catches every error of the save
MainSave ==
  /\ run.pc = "save"
  /\ \E save_ok \in BOOLEAN :
       run' =
         IF run.music_summary = Unbound \/ run.calendar_summary = Unbound
           THEN [run EXCEPT !.pc = "raised", !.error = "UnboundLocalError"]
         ELSE IF run.dry_run
           THEN [run EXCEPT !.pc = "done"]
         ELSE IF save_ok
           THEN [run EXCEPT !.pc = "done", !.log = run.mood]
         ELSE [Failed(run, {"save_log"}) EXCEPT !.pc = "done"]
  /\ UNCHANGED <<engine_vars, gemini, db>>

NextMain ==
  \/ MainMaintenance
  \/ MainOverrides
  \/ MainContext
  \/ MainMusic
  \/ MainPredict
  \/ MainInstagram
  \/ MainSave

(***************************************************************************)
(* The state machine                                                       *)
(***************************************************************************)
NoReport == [status |-> "none"]

NoScoreCall == [status |-> "none"]

\* no analyze call has read the clock yet
NotRead == [day |-> 0, hour |-> 0]

ScoreCall(signals, source_weights, veto_sleep) ==
  [status |-> "called", signals |-> signals,
   source_weights |-> source_weights, veto_sleep |-> veto_sleep]

Returned(trace) ==
  [status |-> "returned", acc |-> trace.acc, shifted |-> trace.shifted,
   result |-> trace.result]

Init ==
  /\ args \in MainArgs
  /\ calls = 0
  /\ report = NoReport
  /\ prev_report = NoReport
  /\ clock_read = NotRead
  /\ score_in = NoScoreCall
  /\ score_trace = NoScoreCall
  /\ gemini = GeminiIdle
  /\ db = DbEmpty
  /\ run = RunIdle

\* the values datetime.now() can return
ClockValues == {[day |-> d, hour |-> h] : d \in ClockDaySet, h \in Hours}

\* the wall clock never runs backwards
NotBefore(t, u) == t.day > u.day \/ (t.day = u.day /\ t.hour >= u.hour)

\* analyzer.analyze(**args) while the wall clock shows clock
AnalyzeAt(clock) ==
  LET call == AnalyzeCall(args, clock)
  IN /\ calls' = calls + 1
     /\ prev_report' = report
     /\ report' = call.report
     /\ clock_read' = clock
     /\ score_in' = ScoreCall(call.signals, SourceWeights, call.veto_sleep)
     /\ score_trace' = Returned(call.trace)
     /\ UNCHANGED <<args, gemini, db, run>>

\* the first call
Analyze ==
  /\ calls = 0
  /\ \E clock \in ClockValues : AnalyzeAt(clock)

\* the caller repeats the call with the same arguments, at the same wall-clock
\* time or later
AnalyzeAgain ==
  /\ calls = 1
  /\ \E clock \in ClockValues :
       /\ NotBefore(clock, clock_read)
       /\ AnalyzeAt(clock)

Next == Analyze \/ AnalyzeAgain

Spec == Init /\ [][Next]_vars

\* the weight table of test_sleep_veto_overrides_everything
TestWeights == [sleep |-> WEIGHT_SLEEP, agenda |-> WEIGHT_AGENDA]

\* the _score_moods calls analyze makes for MainArgs at the first clock value
AnalyzeScoreCalls ==
  {LET call == AnalyzeCall(a, [day |-> FirstDay, hour |-> 9])
   IN ScoreCall(call.signals, SourceWeights, call.veto_sleep) : a \in MainArgs}

\* _score_moods called directly, as the unit tests do, on any short signal
\* list, and as analyze calls it
ScoreCalls ==
  {ScoreCall(sigs, TestWeights, veto) :
     sigs \in ListsUpTo(SignalUniverse, MaxSignals), veto \in BOOLEAN}
  \cup AnalyzeScoreCalls

InitScore ==
  /\ args = DefaultArgs
  /\ calls = 0
  /\ report = NoReport
  /\ prev_report = NoReport
  /\ clock_read = NotRead
  /\ score_in \in ScoreCalls
  /\ score_trace = NoScoreCall
  /\ gemini = GeminiIdle
  /\ db = DbEmpty
  /\ run = RunIdle

CallScoreMoods ==
  /\ score_in.status = "called"
  /\ score_trace.status = "none"
  /\ score_trace' = Returned(ScoreTrace(score_in.signals,
                                        score_in.source_weights,
                                        score_in.veto_sleep))
  /\ UNCHANGED <<args, calls, report, prev_report, clock_read, score_in,
               gemini, db, run>>

NextScore == CallScoreMoods

ScoreSpec == InitScore /\ [][NextScore]_vars

\* a week of reference times, early and late in the day
WeekTimes == {[day |-> d, hour |-> h] : d \in 7..13, h \in {9, 9 + HourSpan}}

TxtSunny == <<"s", "u", "n", "n", "y">>

\* (valence, energy, danceability) around the thresholds 0.6, 0.7 and 0.7
WeekMusic == {<<80, 80, 80>>, <<61, 71, 10>>, <<60, 70, 70>>}

\* analyze without calendar events on every day of a week
WeekArgs ==
  {MakeArgs(<<>>, sl, w, mu, ref, lab) :
     sl \in {80, 84, 85, 95}, w \in {TxtEnsoleille, TxtSunny, TxtNeige},
     mu \in WeekMusic, ref \in WeekTimes, lab \in ExecutionLabels}

InitWeek ==
  /\ args \in WeekArgs
  /\ calls = 0
  /\ report = NoReport
  /\ prev_report = NoReport
  /\ clock_read = NotRead
  /\ score_in = NoScoreCall
  /\ score_trace = NoScoreCall
  /\ gemini = GeminiIdle
  /\ db = DbEmpty
  /\ run = RunIdle

WeekSpec == InitWeek /\ [][Next]_vars

\* analyze over the calendars of AgendaArgs
InitAgenda ==
  /\ args \in AgendaArgs
  /\ calls = 0
  /\ report = NoReport
  /\ prev_report = NoReport
  /\ clock_read = NotRead
  /\ score_in = NoScoreCall
  /\ score_trace = NoScoreCall
  /\ gemini = GeminiIdle
  /\ db = DbEmpty
  /\ run = RunIdle

AgendaSpec == InitAgenda /\ [][Next]_vars

\* weather descriptions matching two classes at once
TxtPluieGris == <<"p", "l", "u", "i", "e", " ", "g", "r", "i", "s">>
TxtGrisSoleil == <<"G", "r", "i", "s", " ", "s", "o", "l", "e", "i", "l">>
TxtOrageSoleil ==
  <<"O", "r", "a", "g", "e", " ", "S", "o", "l", "e", "i", "l">>

SenseWeathers ==
  {TxtPluie, TxtNuageux, TxtEnsoleille, TxtNeige, TxtPluieGris, TxtGrisSoleil,
   TxtOrageSoleil}

\* (valence, energy, danceability), hundredths, on both sides of 0.6, of 0.5
\* and 0.7, and of 0.7
SenseMusic ==
  {<<v, e, d>> : v \in {60, 61}, e \in {50, 51, 70, 71}, d \in {70, 71}}

\* the labels callers pass and the default of analyze_weather
SenseLabels == ExecutionLabels \cup {"UNKNOWN"}

\* analyze without calendar events over weather descriptions and music features
SenseArgs ==
  {MakeArgs(<<>>, 75, w, mu, [day |-> FirstDay, hour |-> 9 + 1], lab) :
     w \in SenseWeathers, mu \in SenseMusic, lab \in SenseLabels}

InitSense ==
  /\ args \in SenseArgs
  /\ calls = 0
  /\ report = NoReport
  /\ prev_report = NoReport
  /\ clock_read = NotRead
  /\ score_in = NoScoreCall
  /\ score_trace = NoScoreCall
  /\ gemini = GeminiIdle
  /\ db = DbEmpty
  /\ run = RunIdle

SenseSpec == InitSense /\ [][Next]_vars

\* values of the arguments no rule reads: temperature (degrees), bedtime,
\* wake_time, tempo (beats per minute)
PassThroughValues ==
  [temperature : {-5, 20, 35}, bedtime : {"Unknown", "23:30"},
   wake_time : {"Unknown", "07:00"}, tempo : {60, 120, 180}]

PassArgs ==
  {MakeArgs(ev, sl, w, mu, [day |-> FirstDay, hour |-> 9 + 1], lab) :
     ev \in {<<>>, <<TimedEvent(TxtCrossfit, FirstDay, 9 + 1)>>},
     sl \in {55, 75}, w \in {TxtPluie, TxtEnsoleille},
     mu \in {<<50, 50, 50>>, <<80, 80, 80>>}, lab \in {"MATIN", "SOIREE"}}

InitPass ==
  /\ args \in PassArgs
  /\ calls = 0
  /\ report = NoReport
  /\ prev_report = NoReport
  /\ clock_read = NotRead
  /\ score_in = NoScoreCall
  /\ score_trace = NoScoreCall
  /\ gemini = GeminiIdle
  /\ db = DbEmpty
  /\ run = RunIdle

\* between two calls the caller changes temperature, bedtime, wake_time or
\* tempo, and nothing else
ChangePassThrough ==
  /\ calls = 1
  /\ args \in PassArgs
  /\ \E p \in PassThroughValues :
       /\ args' = [args EXCEPT !.temperature = p.temperature,
                               !.bedtime = p.bedtime,
                               !.wake_time = p.wake_time,
                               !.tempo = p.tempo]
       /\ args' # args
  /\ UNCHANGED <<calls, report, prev_report, clock_read, score_in,
                 score_trace, gemini, db, run>>

NextPass == Analyze \/ ChangePassThrough \/ AnalyzeAgain

PassSpec == InitPass /\ [][NextPass]_vars

\* the seven keyword lists in the order the if/elif chain tries them
KeywordLists ==
  <<SPORT_INTENSE, SPORT_MODERATE, WORK_CREATIVE, WORK_FOCUS_HIGH,
    WORK_FOCUS_NORMAL, SOCIAL_ACTIVE, SOCIAL_CALM>>

AllKeywords == UNION {Range(KeywordLists[i]) : i \in DOMAIN KeywordLists}

\* one event today, timed or with a date only, whose summary is a keyword, a
\* word without keyword or a title in mixed case
KeywordEvents ==
  {TimedEvent(s, FirstDay, 9 + 1) :
     s \in AllKeywords \cup {TxtDentiste, TxtExamenFinal}}
  \cup {DatedEvent(s, FirstDay) :
          s \in AllKeywords \cup {TxtDentiste, TxtExamenFinal}}

\* analyze at a reference time early and late in the day
KeywordArgs ==
  {[DefaultArgs EXCEPT !.calendar_events = <<e>>,
                       !.current_time = [day |-> FirstDay, hour |-> h]] :
     e \in KeywordEvents, h \in {9, 9 + HourSpan}}

InitKeyword ==
  /\ args \in KeywordArgs
  /\ calls = 0
  /\ report = NoReport
  /\ prev_report = NoReport
  /\ clock_read = NotRead
  /\ score_in = NoScoreCall
  /\ score_trace = NoScoreCall
  /\ gemini = GeminiIdle
  /\ db = DbEmpty
  /\ run = RunIdle

KeywordSpec == InitKeyword /\ [][Next]_vars

(***************************************************************************)
(* connectors/mood_analyzer.py: the source weights of its analyze          *)
(***************************************************************************)
\* MoodAnalyzerConfig, SOURCE WEIGHTS, percent (mood_analyzer.py:94-101)
LegacyConfig ==
  [WEIGHT_AGENDA |-> 40,
   WEIGHT_SLEEP_MORNING |-> 30,
   WEIGHT_SLEEP_AFTERNOON |-> 15,
   WEIGHT_WEATHER_MORNING |-> 15,
   WEIGHT_WEATHER_AFTERNOON |-> 20,
   WEIGHT_MUSIC |-> 10,
   WEIGHT_TIME |-> 5]

\* lines 503-519
LegacySourceWeights(execution_type) ==
  IF execution_type = "MATIN"
    THEN [agenda |-> LegacyConfig.WEIGHT_AGENDA,
          sleep |-> LegacyConfig.WEIGHT_SLEEP_MORNING,
          weather |-> LegacyConfig.WEIGHT_WEATHER_MORNING,
          music |-> LegacyConfig.WEIGHT_MUSIC,
          time |-> LegacyConfig.WEIGHT_TIME]
    ELSE [agenda |-> LegacyConfig.WEIGHT_AGENDA,
          sleep |-> LegacyConfig.WEIGHT_SLEEP_AFTERNOON,
          weather |-> LegacyConfig.WEIGHT_WEATHER_AFTERNOON,
          music |-> LegacyConfig.WEIGHT_MUSIC,
          time |-> LegacyConfig.WEIGHT_TIME]

InitLegacy ==
  /\ args \in SenseArgs
  /\ calls = 0
  /\ report = NoReport
  /\ prev_report = NoReport
  /\ clock_read = NotRead
  /\ score_in = NoScoreCall
  /\ score_trace = NoScoreCall
  /\ gemini = GeminiIdle
  /\ db = DbEmpty
  /\ run = RunIdle

\* analyze of connectors/mood_analyzer.py (lines 472-560): of the report it
\* returns, the entries execution_type and source_weights
LegacyAnalyze ==
  /\ calls = 0
  /\ calls' = 1
  /\ report' = [status |-> "legacy",
                execution_type |-> args.execution_type,
                source_weights |-> LegacySourceWeights(args.execution_type)]
  /\ UNCHANGED <<args, prev_report, clock_read, score_in, score_trace,
                 gemini, db, run>>

NextLegacy == LegacyAnalyze

LegacySpec == InitLegacy /\ [][NextLegacy]_vars

(***************************************************************************)
(* Properties                                                              *)
(***************************************************************************)
Dominates(scores, top) == \A m \in DOMAIN scores \ {top} : scores[top] > scores[m]

\* C1 as stated: whenever analyze is given 0 <= sleep_hours < 6.0, the tired
\* score of the report is strictly greater than every other score.
C1_VetoBelowSix ==
  (report.status = "returned" /\ args.sleep_hours >= 0 /\ args.sleep_hours < 60)
    => Dominates(report.mood_scores, "tired")

\* C1 amended: whenever analyze is given 0 < sleep_hours < 6.0, with any
\* calendar, weather, music, weekday and window, the tired score of the report
\* is strictly greater than every other score and top_moods[0] is tired.
C1_VetoDominance ==
  (report.status = "returned" /\ args.sleep_hours > 0 /\ args.sleep_hours < 60)
    => /\ Dominates(report.mood_scores, "tired")
       /\ report.top_moods[1] = <<"tired", report.mood_scores["tired"]>>

\* Scenario B with opposing music: 4.0 h of sleep, an intense-sport event still
\* to come (its pressure is counted) and high-energy music.
C1_Witness ==
  /\ report.status = "returned"
  /\ args.sleep_hours = 40
  /\ args.execution_type = "MATIN"
  /\ report.agenda.total_pressure = 20
  /\ args.energy = 80
  /\ report.mood_scores["pumped"] > 0

\* C2: the score map _score_moods returns, for the signal lists analyze builds
\* and for any signal list (negative strengths included), has exactly the nine
\* canonical keys and no negative value.
C2_ScoresCanonicalNonNegative ==
  score_trace.status = "returned"
    => /\ DOMAIN score_trace.result = Moods
       /\ Cardinality(DOMAIN score_trace.result) = 9
       /\ \A m \in Moods : score_trace.result[m] >= 0

\* a call whose accumulated scores hold a negative value
C2_Witness ==
  /\ score_trace.status = "returned"
  /\ \E m \in Moods : score_trace.acc[m] < 0
  /\ \E s \in Range(score_in.signals) : s[2] = "very_weak"

\* C3: two analyze calls with identical arguments return identical reports,
\* whatever the wall clock shows at each call.
C3_Purity == calls = 2 => report = prev_report

\* C4: with veto_sleep the returned tired score is 1.5 times the maximum after
\* normalization and strictly greater than every other score.
C4_VetoStrictlyTop ==
  (score_trace.status = "returned" /\ score_in.veto_sleep)
    => /\ 2 * score_trace.result["tired"] = 3 * MaxValue(score_trace.shifted)
       /\ Dominates(score_trace.result, "tired")

RECURSIVE SumOver(_, _)
SumOver(f, keys) ==
  IF keys = {}
    THEN 0
    ELSE LET k == CHOOSE k \in keys : TRUE IN f[k] + SumOver(f, keys \ {k})

C6_UniformShift ==
  score_trace.status = "returned"
    => LET acc == score_trace.acc
           shifted == score_trace.shifted
           m == MinValue(acc)
       IN /\ m < 0 => /\ \A k \in Moods : shifted[k] = acc[k] - m
                      /\ MinValue(shifted) = 0
          /\ m >= 0 => shifted = acc
          /\ \A a, b \in Moods :
               /\ shifted[a] - shifted[b] = acc[a] - acc[b]
               /\ (shifted[a] < shifted[b]) <=> (acc[a] < acc[b])
          /\ SortedItems(shifted) =
               [i \in 1..9 |-> <<SortedItems(acc)[i][1],
                                 shifted[SortedItems(acc)[i][1]]>>]

\* a call that accumulated two different negative scores
C6_Witness ==
  /\ score_trace.status = "returned"
  /\ \E a, b \in Moods :
       /\ score_trace.acc[a] < score_trace.acc[b]
       /\ score_trace.acc[b] < 0
       /\ score_trace.shifted[a] = 0
       /\ score_trace.shifted[b] > 0

\* C7 as stated: analyze called with a window label outside MATIN, APRES_MIDI,
\* SOIREE is rejected with an error instead of returning a report.
C7_UnknownWindowRejected ==
  (calls >= 1 /\ args.execution_type \notin ExecutionTypes)
    => report.status = "raised"

\* C7 amended: analyze called with a window label outside MATIN, APRES_MIDI,
\* SOIREE is not rejected: it returns a complete report that carries the label
\* unchanged and is otherwise the report of a non-MATIN window (same weights,
\* sub-report signals, scores and ranking as for SOIREE).
C7_UnknownWindowAccepted ==
  (calls >= 1 /\ args.execution_type \notin ExecutionTypes)
    => LET evening ==
             AnalyzeCall([args EXCEPT !.execution_type = "SOIREE"],
                         clock_read).report
       IN /\ report.status = "returned"
          /\ report.execution_type = args.execution_type
          /\ report = [evening EXCEPT !.execution_type = args.execution_type]

\* rain under the label APRES-MIDI of the unit test
C7_Witness ==
  /\ calls >= 1
  /\ args.execution_type = "APRES-MIDI"
  /\ args.weather = TxtPluie
  /\ report.status = "returned"
  /\ report.weather.mood_signals =
       << <<"melancholy", "moderate">>, <<"chill", "moderate">> >>

ReportKeys ==
  {"status", "timestamp", "execution_type", "source_weights", "agenda",
   "sleep", "weather", "music", "time", "mood_scores", "top_moods", "summary"}

\* C8: analyze never raises and returns a complete report (five sub-reports,
\* source_weights, mood_scores, top_moods, summary), also for an empty
\* calendar, sleep_hours = 0, default music values and events whose start is
\* missing, empty or unparseable or whose summary is missing; analyze_time
\* labels a weekday outside 0..6 Unknown and emits nothing for it.
C8_AnalyzeTotal ==
  /\ calls >= 1
       => /\ report.status = "returned"
          /\ DOMAIN report = ReportKeys
          /\ \A s \in Sources : "mood_signals" \in DOMAIN report[s]
                                /\ "analysis" \in DOMAIN report[s]
          /\ DOMAIN report.mood_scores = Moods
          /\ Len(report.top_moods) = 3
          /\ DOMAIN report.summary = Sources \cup {"top_mood"}
  /\ \A w \in {0 - 1, 7} :
       /\ AnalyzeTime(9, w, "MATIN").day = "Unknown"
       /\ AnalyzeTime(9, w, "MATIN").mood_signals = <<>>

\* a report for a calendar of four events with an unparseable dateTime, an
\* unparseable date, no start and no summary, with sleep_hours = 0 and the
\* default music values
C8_Witness ==
  /\ report.status = "returned"
  /\ Len(args.calendar_events) = 4
  /\ args.calendar_events[1].start.ok = FALSE
  /\ args.calendar_events[3].start.kind = "none"
  /\ args.sleep_hours = 0
  /\ args.energy = 50
  /\ report.agenda.event_count = 1

\* the bands of C9: quality and signals of a sleep duration, tenths of an hour
C9_Band(h) ==
  IF h <= 0 THEN <<"NO_DATA", << <<"chill", "moderate">> >> >>
  ELSE IF h < 60 THEN <<"CRITICAL_VETO", << <<"tired", "very_strong">> >> >>
  ELSE IF h < 70
    THEN <<"POOR", << <<"tired", "strong">>, <<"intense", "moderate">> >> >>
  ELSE IF h < 80 THEN <<"INADEQUATE", << <<"tired", "moderate">> >> >>
  ELSE IF h < 85 THEN <<"OK", << <<"chill", "moderate">> >> >>
  ELSE <<"OPTIMAL", << <<"energetic", "strong">>, <<"confident", "strong">> >> >>

\* C9: analyze_sleep puts sleep_hours in the band of C9_Band with that band's
\* signals, veto is true exactly in the CRITICAL_VETO band, and the aggregator
\* overrides the tired score (1.5 times the maximum) exactly when veto is true.
C9_SleepBands ==
  report.status = "returned"
    => /\ report.sleep.quality = C9_Band(args.sleep_hours)[1]
       /\ report.sleep.mood_signals = C9_Band(args.sleep_hours)[2]
       /\ report.sleep.veto <=> report.sleep.quality = "CRITICAL_VETO"
       /\ score_in.veto_sleep = report.sleep.veto
       /\ report.sleep.veto
            => /\ 2 * score_trace.result["tired"] =
                    3 * MaxValue(score_trace.shifted)
               /\ \A m \in Moods \ {"tired"} :
                    score_trace.result[m] = score_trace.shifted[m]
       /\ ~report.sleep.veto => score_trace.result = score_trace.shifted
       /\ report.mood_scores = score_trace.result

\* sleep of 5.9 h: the veto is raised and the override has moved tired
C9_Witness ==
  /\ report.status = "returned"
  /\ args.sleep_hours = 59
  /\ report.sleep.quality = "CRITICAL_VETO"
  /\ report.sleep.veto
  /\ score_trace.result["tired"] > score_trace.shifted["tired"]

\* the keyword lists of C10 in their order of precedence, and the pressure of
\* each category (tenths); the eighth category is the default
C10_Lists ==
  <<SPORT_INTENSE, SPORT_MODERATE, WORK_CREATIVE, WORK_FOCUS_HIGH,
    WORK_FOCUS_NORMAL, SOCIAL_ACTIVE, SOCIAL_CALM>>

C10_Pressure == <<20, 10, 10, 40, 5, 10, 5, 5>>

\* the first category, in precedence order, one of whose keywords occurs in the
\* lower-cased summary
C10_Category(event) ==
  LET s == Lower(EventSummary(event))
      hits == {i \in DOMAIN C10_Lists : AnyIn(C10_Lists[i], s)}
  IN IF hits = {} THEN 8 ELSE CHOOSE i \in hits : \A j \in hits : i <= j

\* the event is dated today and is not over when the clock shows clock
C10_Upcoming(event, clock) ==
  /\ event.start.ok
  /\ event.start.day = clock.day
  /\ \/ event.start.kind = "date"
     \/ event.start.kind = "dateTime" /\ event.start.hour > clock.hour

RECURSIVE C10_PressureSum(_, _, _)
C10_PressureSum(events, i, clock) ==
  IF i > Len(events)
    THEN 0
    ELSE (IF C10_Upcoming(events[i], clock)
            THEN C10_Pressure[C10_Category(events[i])]
            ELSE 0)
         + C10_PressureSum(events, i + 1, clock)

MalformedToday ==
  [has_summary |-> TRUE, summary |-> TxtExamenFinal,
   start |-> [kind |-> "dateTime", ok |-> FALSE, day |-> FirstDay,
              hour |-> 9 + HourSpan]]

LookEvents ==
  {TimedEvent(TxtExamenFinal, FirstDay + 1, 9 + 1),
   DatedEvent(TxtExamDesign, FirstDay + 2),
   TimedEvent(TxtCrossfit, FirstDay + 1, 9 + 1),
   TimedEvent(TxtExamenFinal, FirstDay + 3, 9 + 1),
   DatedEvent(TxtExamenFinal, FirstDay - 1),
   TimedEvent(TxtExamenFinal, FirstDay, 9 + 1),
   TimedEvent(TxtCrossfit, FirstDay, 9 + 1),
   TimedEvent(TxtDentiste, FirstDay, 9),
   MalformedToday,
   NoStartEvent(TxtExamenFinal),
   BadEvent(TxtCrossfit, "date")}

LookArgs ==
  {[DefaultArgs EXCEPT !.calendar_events = ev] :
     ev \in ListsUpTo(LookEvents, MaxEvents)}

InitLook ==
  /\ args \in LookArgs
  /\ calls = 0
  /\ report = NoReport
  /\ prev_report = NoReport
  /\ clock_read = NotRead
  /\ score_in = NoScoreCall
  /\ score_trace = NoScoreCall
  /\ gemini = GeminiIdle
  /\ db = DbEmpty
  /\ run = RunIdle

LookSpec == InitLook /\ [][Next]_vars

\* no analyze call is made
EngineIdle ==
  /\ args = DefaultArgs
  /\ calls = 0
  /\ report = NoReport
  /\ prev_report = NoReport
  /\ clock_read = NotRead
  /\ score_in = NoScoreCall
  /\ score_trace = NoScoreCall

\* predict_mood called with or without dry_run and GEMINI_API_KEY
InitGemini ==
  /\ EngineIdle
  /\ gemini \in {[GeminiIdle EXCEPT !.dry_run = d, !.has_key = k] :
                   d \in BOOLEAN, k \in BOOLEAN}
  /\ db = DbEmpty
  /\ run = RunIdle

GeminiSpec == InitGemini /\ [][NextGemini]_vars

\* save_log on a collection that starts empty
InitMongo ==
  /\ EngineIdle
  /\ gemini = GeminiIdle
  /\ db = DbEmpty
  /\ run = RunIdle

MongoSpec == InitMongo /\ [][NextMongo]_vars

\* main() started with or without --dry-run and --no-ai
InitMain ==
  /\ EngineIdle
  /\ gemini = GeminiIdle
  /\ db = DbEmpty
  /\ run \in {[RunIdle EXCEPT !.pc = "start", !.dry_run = d, !.no_ai = n] :
                d \in BOOLEAN, n \in BOOLEAN}

MainSpec == InitMain /\ [][NextMain]_vars

\* main() is a sequential program: a step that can be taken is taken
MainLiveSpec == MainSpec /\ WF_vars(NextMain)

(***************************************************************************)
(* C11: the sunny, well-slept, high-energy scenario                        *)
(***************************************************************************)
\* no calendar events, sunny weather, sleep_hours >= 8.0, energy > 0.7 and
\* valence > 0.6
C11_Scenario ==
  /\ args.calendar_events = <<>>
  /\ AnyIn(WEATHER_SUNNY, Lower(args.weather))
  /\ args.sleep_hours >= 80
  /\ args.energy > 70
  /\ args.valence > 60

C11_Upbeat == {"energetic", "pumped", "confident"}

\* C11 as stated: in the scenario, analyze returns a top_moods[0] category in
\* {energetic, pumped, confident} on every weekday and in every window
C11_EveryWeekday ==
  (report.status = "returned" /\ C11_Scenario)
    => report.top_moods[1][1] \in C11_Upbeat

\* C11 corrected: in the scenario, the top category is in {energetic, pumped,
\* confident} in every window from Monday to Thursday, and on every weekday
\* when sleep_hours >= 8.5; from Friday to Sunday with 8.0 <= sleep_hours <
\* 8.5 the top category is chill
C11_ScenarioA ==
  (report.status = "returned" /\ C11_Scenario)
    => LET weekday == Weekday(args.current_time.day)
       IN /\ (weekday \in 0..3 \/ args.sleep_hours >= SLEEP_OPTIMAL_MIN)
               => report.top_moods[1][1] \in C11_Upbeat
          /\ (weekday \in 4..6 /\ args.sleep_hours < SLEEP_OPTIMAL_MIN)
               => report.top_moods[1][1] = "chill"

\* a Friday call in the scenario with 8.5 h of sleep has returned an upbeat
\* top mood
C11_Witness ==
  /\ report.status = "returned"
  /\ C11_Scenario
  /\ Weekday(args.current_time.day) = 4
  /\ args.sleep_hours = SLEEP_OPTIMAL_MIN
  /\ args.execution_type = "SOIREE"
  /\ report.top_moods[1][1] = "confident"

(***************************************************************************)
(* C12: the weekly rhythm of TimeAnalyzer.analyze_time                     *)
(***************************************************************************)
C12_Expected(weekday) ==
  IF weekday = 0
    THEN << <<"energetic", "strong">>, <<"pumped", "moderate">> >>
  ELSE IF weekday = 4
    THEN << <<"tired", "moderate">>, <<"chill", "strong">> >>
  ELSE IF weekday = 5 \/ weekday = 6
    THEN << <<"chill", "strong">> >>
  ELSE <<>>

\* C12: analyze_time emits exactly energetic strong + pumped moderate on
\* Monday, tired moderate + chill strong on Friday, chill strong on Saturday
\* and Sunday and nothing on any other weekday, whatever the hour and the
\* window; checked on the time sub-report of every analyze call and on
\* direct calls over every hour, weekdays -1..8 and every label
C12_WeeklyRhythm ==
  /\ report.status = "returned"
       => /\ report.time.mood_signals
               = C12_Expected(Weekday(args.current_time.day))
          /\ report.time.hour = args.current_time.hour
  /\ \A hour \in 0..23, weekday \in -1..8, label \in ExecutionLabels :
       AnalyzeTime(hour, weekday, label).mood_signals = C12_Expected(weekday)

\* a Saturday call late in the day has returned the weekend signal
C12_Witness ==
  /\ report.status = "returned"
  /\ Weekday(args.current_time.day) = 5
  /\ args.current_time.hour = 9 + HourSpan
  /\ args.execution_type = "APRES-MIDI"
  /\ report.time.mood_signals = << <<"chill", "strong">> >>

(***************************************************************************)
(* C13: the model cascade of predict_mood                                  *)
(***************************************************************************)
\* the moods each response text of the model holds, read off the texts
C13_MoodsIn(attempt) ==
  IF attempt.raised THEN {}
  ELSE IF attempt.text = RespConfident THEN {"confident"}
  ELSE IF attempt.text = RespTiredSentence THEN {"tired"}
  ELSE IF attempt.text = RespDotted THEN {"tired"}
  ELSE IF attempt.text = RespTwoMoods THEN {"chill", "pumped"}
  ELSE IF attempt.text = RespUpper THEN {"hard_work"}
  ELSE {}

\* C13: without dry run and with an API key, predict_mood tries the models in
\* PREFERRED_MODELS order, every model before the last one tried raised or
\* answered without a valid mood, the value returned is a mood of the first
\* answer holding one, or chill after all five models failed, and it is
\* always one of the nine valid moods
C13_Cascade ==
  (~gemini.dry_run /\ gemini.has_key)
    => LET n == Len(gemini.tried)
       IN /\ n <= Len(PREFERRED_MODELS)
          /\ \A i \in 1..n : gemini.tried[i].model = PREFERRED_MODELS[i]
          /\ \A i \in 1..(n - 1) : C13_MoodsIn(gemini.tried[i]) = {}
          /\ gemini.pc = "cascade"
               => /\ gemini.model_index = n + 1
                  /\ \A i \in 1..n : C13_MoodsIn(gemini.tried[i]) = {}
          /\ gemini.pc = "returned"
               => /\ gemini.result \in Moods
                  /\ IF n > 0 /\ C13_MoodsIn(gemini.tried[n]) # {}
                       THEN gemini.result \in C13_MoodsIn(gemini.tried[n])
                       ELSE n = Len(PREFERRED_MODELS) /\ gemini.result = "chill"

\* the first model raised, the second answered without a mood, the third
\* answered " Tired.\n" and tired was returned
C13_Witness ==
  /\ gemini.pc = "returned"
  /\ ~gemini.dry_run /\ gemini.has_key
  /\ Len(gemini.tried) = 3
  /\ gemini.tried[1].raised
  /\ gemini.tried[2].text = RespHappy
  /\ gemini.tried[3].text = RespTiredSentence
  /\ gemini.tried[3].model = "gemini-2.0-flash-lite"
  /\ gemini.result = "tired"

(***************************************************************************)
(* C14: one log per (date, execution_type)                                 *)
(***************************************************************************)
\* the pair save_log files an entry under
C14_Pair(entry) ==
  <<entry.date, IF entry.has_type THEN entry.execution_type ELSE "UNKNOWN">>

\* C14: after any sequence of save_log calls the collection holds, for every
\* (date, execution_type) pair saved, exactly one log, the entry most recently
\* saved for the pair, and no other log
C14_OneLogPerPair ==
  /\ \A i \in DOMAIN db.collection :
       \E k \in DOMAIN db.saves :
         C14_Pair(db.saves[k]) = C14_Pair(db.collection[i].entry)
  /\ \A k \in DOMAIN db.saves :
       LET pair == C14_Pair(db.saves[k])
           logs == {i \in DOMAIN db.collection :
                      C14_Pair(db.collection[i].entry) = pair}
           last == CHOOSE j \in DOMAIN db.saves :
                     /\ C14_Pair(db.saves[j]) = pair
                     /\ \A l \in DOMAIN db.saves :
                          C14_Pair(db.saves[l]) = pair => l <= j
       IN /\ Cardinality(logs) = 1
          /\ \A i \in logs : db.collection[i].entry = db.saves[last]

(***************************************************************************)
(* C15: main() runs to completion                                          *)
(***************************************************************************)
\* main has not raised; once the prediction step is over, a failed
\* predict_mood has left the default mood, and the profile and the log carry
\* the mood of the run
C15_Safe ==
  /\ run.pc # "raised"
  /\ (run.pc \in {"instagram", "save", "done"} /\ "predict_mood" \in run.failed)
       => run.mood = DEFAULT_FALLBACK_MOOD
  /\ run.profile \in {"None", run.mood}
  /\ run.log \in {"None", run.mood}

\* C15: whichever collaborator raises, main() never raises and reaches the end
\* of the log-saving step; when predict_mood raises the mood of the later
\* steps is energetic
C15_MainCompletes == []C15_Safe /\ <>(run.pc = "done")

\* a run in which the maintenance, the overrides, the history, the calendar,
\* the weather, the music, the prediction, the Instagram update and the save
\* all failed has completed with the default mood
C15_Witness ==
  /\ run.pc = "done"
  /\ run.failed = {"maintenance", "overrides", "history", "calendar",
                   "weather", "music", "predict_mood", "instagram",
                   "save_log"}
  /\ run.mood = "energetic"
  /\ run.profile = "None"
  /\ run.log = "None"

(***************************************************************************)
(* C16: the agenda and the reference time                                  *)
(***************************************************************************)
\* C16: the agenda sub-report is the one computed from the event list and the
\* reference time passed to analyze
C16_AgendaFromReferenceTime ==
  report.status = "returned"
    => report.agenda = AnalyzeEvents(args.calendar_events,
                                     args.current_time.hour,
                                     args.current_time)

C17_Table ==
  [agenda |-> 35, sleep |-> 35, weather |-> 15, music |-> 10, time |-> 5]

Agenda_Dated(event) == event.start.kind \in {"dateTime", "date"} /\ event.start.ok

\* the summaries of the calendars that hold a high-pressure keyword
Agenda_HighPressure == {TxtExamenFinal, TxtExamDesign}

Agenda_Today(event, clock) ==
  Agenda_Dated(event) /\ event.start.day = clock.day

\* dated 1 or 2 days after the present day with a high-pressure keyword
Agenda_NearStress(event, clock) ==
  /\ Agenda_Dated(event)
  /\ event.start.day - clock.day \in {1, 2}
  /\ event.has_summary /\ event.summary \in Agenda_HighPressure

\* dated today at a time at or before the present time
Agenda_Happened(event, clock) ==
  /\ Agenda_Today(event, clock)
  /\ event.start.kind = "dateTime"
  /\ event.start.hour <= clock.hour

Agenda_Of(events) ==
  AnalyzeEvents(events, args.current_time.hour, clock_read)

C20_Skipped(event) ==
  event.start.kind = "none" \/ ~event.start.ok

\* C20: analyze_events never raises on an event without a date or with one
\* that does not parse, and returns what it returns for the list without
\* these events; the empty list gives pressure 0, count 0 and no signal
C20_MalformedSkipped ==
  /\ report.status # "raised"
  /\ report.status = "returned"
       => /\ report.agenda
               = Agenda_Of(SelectSeq(args.calendar_events,
                                     LAMBDA e : ~C20_Skipped(e)))
          /\ args.calendar_events = <<>>
               => /\ report.agenda.total_pressure = 0
                  /\ report.agenda.event_count = 0
                  /\ report.agenda.mood_signals = <<>>
                  /\ report.agenda.today_events = <<>>
                  /\ report.agenda.upcoming_stress = <<>>

\* a start that does not parse before today's crossfit, analysed at 9 h: the
\* crossfit alone is reported
C20_Witness ==
  /\ report.status = "returned"
  /\ args.calendar_events
       = <<MalformedToday, TimedEvent(TxtCrossfit, FirstDay, 9 + 1)>>
  /\ clock_read = [day |-> FirstDay, hour |-> 9]
  /\ report.agenda.event_count = 1
  /\ report.agenda.total_pressure = 20
  /\ report.agenda.mood_signals = << <<"pumped", "very_strong">> >>

\* the weather classes a description matches
Weather_Matches(description) ==
  {c \in {"rain", "cloudy", "sunny"} :
     AnyIn(CASE c = "rain" -> WEATHER_RAIN
             [] c = "cloudy" -> WEATHER_CLOUDY
             [] c = "sunny" -> WEATHER_SUNNY, Lower(description))}

\* the class of highest priority among those matched
Weather_Class(description) ==
  LET m == Weather_Matches(description)
  IN IF "rain" \in m THEN "rain"
     ELSE IF "cloudy" \in m THEN "cloudy"
     ELSE IF "sunny" \in m THEN "sunny"
     ELSE "none"

Weather_Signals(class, window) ==
  CASE class = "rain" /\ window = "MATIN" ->
         << <<"melancholy", "very_strong">>, <<"intense", "strong">> >>
    [] class = "rain" /\ window # "MATIN" ->
         << <<"melancholy", "moderate">>, <<"chill", "moderate">> >>
    [] class = "cloudy" -> << <<"melancholy", "moderate">> >>
    [] class = "sunny" ->
         << <<"confident", "strong">>, <<"pumped", "moderate">> >>
    [] class = "none" -> <<>>

\* C21: the weather analyzer emits the signals of the one weather class of
\* highest priority (rain, then cloudy, then sunny) that the description
\* matches: for rain, melancholy very_strong and intense strong in the MATIN
\* window and melancholy moderate and chill moderate in any other; for
\* cloudy, melancholy moderate; for sunny, confident strong and pumped
\* moderate; and nothing when no keyword matches.
C21_WeatherByPriority ==
  report.status = "returned"
    => report.weather.mood_signals
         = Weather_Signals(Weather_Class(args.weather), args.execution_type)

\* a description matching rain and sunny was analyzed outside MATIN
C21_Witness ==
  /\ report.status = "returned"
  /\ Weather_Matches(args.weather) = {"rain", "sunny"}
  /\ args.execution_type = "SOIREE"
  /\ report.weather.mood_signals
       = << <<"melancholy", "moderate">>, <<"chill", "moderate">> >>

Music_Has(signals, signal) == \E i \in DOMAIN signals : signals[i] = signal

\* the signals of the moods only the energy tiers emit
Music_Tier(signals) ==
  SelectSeq(signals, LAMBDA s : s[1] \in {"pumped", "energetic", "chill"})

\* C22: the music analyzer emits exactly one energy tier (pumped strong and
\* energetic strong above 0.7, energetic moderate above 0.5, chill strong
\* otherwise), confident moderate exactly when valence is above 0.6 and
\* creative moderate exactly when danceability is above 0.7, each check
\* whatever the two others gave, and nothing else.
C22_MusicChecks ==
  report.status = "returned"
    => LET s == report.music.mood_signals
           tier == Music_Tier(s)
       IN /\ tier = (IF args.energy > 70
                       THEN << <<"pumped", "strong">>,
                               <<"energetic", "strong">> >>
                     ELSE IF args.energy > 50
                       THEN << <<"energetic", "moderate">> >>
                     ELSE << <<"chill", "strong">> >>)
          /\ Music_Has(s, <<"confident", "moderate">>) <=> args.valence > 60
          /\ Music_Has(s, <<"creative", "moderate">>)
               <=> args.danceability > 70
          /\ Len(s) = Len(tier) + (IF args.valence > 60 THEN 1 ELSE 0)
                                + (IF args.danceability > 70 THEN 1 ELSE 0)

\* valence and danceability both above their thresholds in the middle tier
C22_Witness ==
  /\ report.status = "returned"
  /\ args.energy = 51 /\ args.valence = 61 /\ args.danceability = 71
  /\ report.music.mood_signals
       = << <<"energetic", "moderate">>, <<"confident", "moderate">>,
            <<"creative", "moderate">> >>

Score_Base(strength) ==
  CASE strength = "very_weak" -> -30
    [] strength = "weak" -> -10
    [] strength = "neutral" -> 0
    [] strength = "moderate" -> 5
    [] strength = "strong" -> 10
    [] strength = "very_strong" -> 30

\* base value times source weight, summed over the signals of one category;
\* weights in percent
Score_Sum(signals, source_weights, mood) ==
  LET mine == {i \in DOMAIN signals : signals[i][1] = mood}
      term == [i \in mine |->
                 Score_Base(signals[i][2]) * source_weights[signals[i][3]]]
  IN SumOver(term, mine)

\* every signal of the call comes from a source of the weight table
Score_KnownSources ==
  \A i \in DOMAIN score_in.signals :
    score_in.signals[i][3] \in DOMAIN score_in.source_weights

\* C23: before normalization and veto, the score of each category is the
\* sum, over the signals for that category, of the base value of the
\* strength (-30, -10, 0, +5, +10, +30) times the weight of the source of
\* the signal; a category without a signal scores 0.  Scores are in units of
\* 0.005, which is twice a base value times a percentage.
C23_WeightedSums ==
  (score_trace.status = "returned" /\ Score_KnownSources)
    => \A m \in Moods :
         /\ score_trace.acc[m]
              = 2 * Score_Sum(score_in.signals, score_in.source_weights, m)
         /\ (\A i \in DOMAIN score_in.signals : score_in.signals[i][1] # m)
              => score_trace.acc[m] = 0

\* two signals of opposite sign for one category were added up, and a
\* category without a signal stayed at 0
C23_Witness ==
  /\ score_trace.status = "returned"
  /\ score_in.signals = << <<"tired", "strong", "sleep">>,
                           <<"tired", "very_weak", "sleep">> >>
  /\ score_trace.acc["tired"] = 2 * (10 - 30) * WEIGHT_SLEEP
  /\ score_trace.acc["chill"] = 0

\* C24: top_moods lists three distinct categories, each with its score of
\* mood_scores, in non-increasing score order, and no category left out
\* scores more than the third one listed.
C24_TopThree ==
  report.status = "returned"
    => LET t == report.top_moods
           s == report.mood_scores
           listed == {t[i][1] : i \in DOMAIN t}
       IN /\ Len(t) = 3
          /\ Cardinality(listed) = 3
          /\ \A i \in DOMAIN t : t[i][1] \in Moods /\ t[i][2] = s[t[i][1]]
          /\ t[1][2] >= t[2][2] /\ t[2][2] >= t[3][2]
          /\ \A m \in Moods \ listed : s[m] <= t[3][2]

\* three different scores were ranked, the best of them not the first key
C24_Witness ==
  /\ report.status = "returned"
  /\ report.top_moods[1][2] > report.top_moods[2][2]
  /\ report.top_moods[2][2] > report.top_moods[3][2]
  /\ report.top_moods[3][2] > 0
  /\ report.top_moods[1][1] # "creative"

\* C29: the label after TOP MOOD in the summary is the upper-cased category
\* of the first entry of top_moods, also when several categories tie for the
\* highest score: both are then the first of the tied categories in the
\* order MoodCategory declares them.
C29_LabelIsFirstTopMood ==
  report.status = "returned"
    => LET s == report.mood_scores
           tied == {m \in Moods : \A o \in Moods : s[m] >= s[o]}
           first == CHOOSE m \in tied :
                      \A o \in tied : MoodIndex[m] <= MoodIndex[o]
       IN /\ report.summary.top_mood = MoodUpper(report.top_moods[1][1])
          /\ report.top_moods[1][1] = first

\* two categories tie for the highest score
C29_Witness ==
  /\ report.status = "returned"
  /\ report.top_moods[1][2] = report.top_moods[2][2]
  /\ report.top_moods[1][2] > report.top_moods[3][2]
  /\ report.summary.top_mood = MoodUpper(report.top_moods[1][1])

\* C25: temperature, bedtime, wake_time and tempo have no influence on the
\* scores: a second analyze call, made at the same wall-clock time with
\* arguments that differ from those of the first call in these four at
\* most, returns the mood_scores and the top_moods of the first call.
C25_PassThroughIgnored ==
  [][(calls = 1 /\ calls' = 2 /\ clock_read' = clock_read
      /\ report.status = "returned")
     => /\ report'.status = "returned"
        /\ report'.mood_scores = report.mood_scores
        /\ report'.top_moods = report.top_moods]_vars

\* the second call was made with all four changed and reported them
C25_Witness ==
  /\ calls = 2
  /\ report.status = "returned" /\ prev_report.status = "returned"
  /\ args.temperature = 35 /\ args.tempo = 180
  /\ args.bedtime = "23:30" /\ args.wake_time = "07:00"
  /\ report.music.tempo = 180 /\ prev_report.music.tempo = 120
  /\ report.weather.temperature = 35 /\ prev_report.weather.temperature = 20
  /\ report.mood_scores = prev_report.mood_scores

\* C26: in connectors/mood_analyzer.py the source-weight table analyze
\* chooses totals 100 percent, for the MATIN window and for every other
\* window.
C26_LegacyTablesTotalOne ==
  report.status = "legacy"
    => SumOver(report.source_weights, DOMAIN report.source_weights) = 100

\* the table chosen for the MATIN window
C26_MorningTotalsOne ==
  (report.status = "legacy" /\ report.execution_type = "MATIN")
    => SumOver(report.source_weights, DOMAIN report.source_weights) = 100

\* the table chosen for any other window
C26_AfternoonTotalsNinety ==
  (report.status = "legacy" /\ report.execution_type # "MATIN")
    => SumOver(report.source_weights, DOMAIN report.source_weights) = 90

(***************************************************************************)
(* Keywords and precedence.  The category of an event is the position of a *)
(* keyword list in the precedence order, 0 for an event without keyword.   *)
(***************************************************************************)
\* signals and pressure (tenths) of each category
Category_Effect(category) ==
  CASE category = 1 ->
         [signals |-> << <<"pumped", "very_strong">> >>, pressure |-> 20]
    [] category = 2 ->
         [signals |-> << <<"energetic", "strong">> >>, pressure |-> 10]
    [] category = 3 ->
         [signals |-> << <<"creative", "strong">> >>, pressure |-> 10]
    [] category = 4 ->
         [signals |-> << <<"intense", "very_strong">>,
                         <<"hard_work", "strong">> >>, pressure |-> 40]
    [] category = 5 ->
         [signals |-> << <<"hard_work", "moderate">> >>, pressure |-> 5]
    [] category = 6 ->
         [signals |-> << <<"confident", "strong">>,
                         <<"energetic", "moderate">> >>, pressure |-> 10]
    [] category = 7 ->
         [signals |-> << <<"chill", "strong">> >>, pressure |-> 5]
    [] category = 0 ->
         [signals |-> << <<"confident", "moderate">> >>, pressure |-> 5]

\* the lists with a keyword that occurs in the lower-cased summary
Category_Hits(summary) ==
  {i \in DOMAIN KeywordLists : AnyIn(KeywordLists[i], Lower(summary))}

\* the category the precedence rules give a summary
Category_ByPrecedence(summary) ==
  LET hits == Category_Hits(summary)
  IN IF hits = {} THEN 0
     ELSE CHOOSE i \in hits : \A j \in hits : i <= j

\* the list a keyword belongs to
Category_Own(keyword) ==
  CHOOSE i \in DOMAIN KeywordLists :
    /\ keyword \in Range(KeywordLists[i])
    /\ \A j \in DOMAIN KeywordLists :
         keyword \in Range(KeywordLists[j]) => i <= j

\* the call analyzed a single event, dated today and not yet happened
Category_OneUpcoming ==
  /\ report.status = "returned"
  /\ Len(args.calendar_events) = 1
  /\ Agenda_Today(args.calendar_events[1], clock_read)
  /\ ~Agenda_Happened(args.calendar_events[1], clock_read)

\* the keywords that hold a keyword of a list of higher precedence
Category_Captured ==
  {kw \in AllKeywords : Category_ByPrecedence(kw) # Category_Own(kw)}

\* C27: an upcoming event of today whose summary is exactly a keyword of one
\* of the seven lists gets the signals and the pressure of the category of
\* the list the keyword belongs to.
C27_KeywordOwnCategory ==
  (Category_OneUpcoming /\ args.calendar_events[1].summary \in AllKeywords)
    => LET own == Category_Own(args.calendar_events[1].summary)
       IN /\ report.agenda.mood_signals = Category_Effect(own).signals
          /\ report.agenda.total_pressure = Category_Effect(own).pressure

\* the keywords classified into another category than their own
C27_CapturedKeywords ==
  Category_Captured
    = { <<"d", "e1", "v", "e", "l", "o", "p", "p", "e", "m", "e", "n", "t">>,
        <<"d", "e", "v", "e", "l", "o", "p", "p", "e", "m", "e", "n", "t">>,
        <<"p", "a", "r", "t", "i", "e", "l">>,
        <<"p", "a", "r", "t", "y">>,
        <<"b", "r", "u", "n", "c", "h">> }

\* every other keyword is classified into its own category
C27_OthersOwnCategory ==
  (/\ Category_OneUpcoming
   /\ args.calendar_events[1].summary \in AllKeywords \ Category_Captured)
    => LET own == Category_Own(args.calendar_events[1].summary)
       IN /\ report.agenda.mood_signals = Category_Effect(own).signals
          /\ report.agenda.total_pressure = Category_Effect(own).pressure

\* the exam keyword partiel was classified as creative work
C27_PartielAsCreative ==
  /\ Category_OneUpcoming
  /\ args.calendar_events[1].summary = <<"p", "a", "r", "t", "i", "e", "l">>
  /\ report.agenda.mood_signals = << <<"creative", "strong">> >>
  /\ report.agenda.total_pressure = 10

Positive_Strengths == {"moderate", "strong", "very_strong"}

\* C28: every signal the five analyzers emit has strength moderate, strong
\* or very_strong; so in every analyze call that returns, the scores before
\* normalization are all >= 0, the normalization leaves them as they are,
\* and some category scores more than 0, the music analyzer having emitted
\* at least one signal.
C28_PositiveSignals ==
  report.status = "returned"
    => /\ \A sub \in {report.agenda, report.sleep, report.weather,
                       report.music, report.time} :
            \A i \in DOMAIN sub.mood_signals :
              sub.mood_signals[i][2] \in Positive_Strengths
       /\ \A i \in DOMAIN score_in.signals :
            score_in.signals[i][2] \in Positive_Strengths
       /\ Len(score_in.signals)
            = Len(report.agenda.mood_signals) + Len(report.sleep.mood_signals)
              + Len(report.weather.mood_signals)
              + Len(report.music.mood_signals) + Len(report.time.mood_signals)
       /\ Len(report.music.mood_signals) >= 1
       /\ \A m \in Moods : score_trace.acc[m] >= 0
       /\ score_trace.shifted = score_trace.acc
       /\ \E m \in Moods : score_trace.acc[m] > 0 /\ report.mood_scores[m] > 0

\* a call in which all five analyzers emitted signals
C28_Witness ==
  /\ report.status = "returned"
  /\ \A sub \in {report.agenda, report.sleep, report.weather,
                   report.music, report.time} : Len(sub.mood_signals) >= 1
  /\ score_trace.shifted = score_trace.acc
  /\ Cardinality({m \in Moods : score_trace.acc[m] > 0}) >= 4

\* the call analyzed a single event given by date only and dated today
DateOnly_Today ==
  /\ report.status = "returned"
  /\ Len(args.calendar_events) = 1
  /\ args.calendar_events[1].start.kind = "date"
  /\ Agenda_Today(args.calendar_events[1], clock_read)

====
